---- MODULE Spec2Model ----
(***************************************************************************)
(* Model of the LTFS tape tools: the zip archiver                          *)
(* (src/ltfs-zip-archiver/main.go and its single-source variant            *)
(* src/unnamed/part_000) and the SHA256 verifier                           *)
(* (src/ltfs-verifier/main.go).                                            *)
(*                                                                         *)
(* The module holds four state machines over one set of variables:         *)
(*   SpecBW      BufferedWriter.Write / Flush over a sink that may fail    *)
(*   SpecPause   PauseController with concurrent Toggle / WaitIfPaused     *)
(*   SpecArch    main + addFiles of the archiver (guard, scan, write)      *)
(*   SpecDigest  generateSHA256File / verifySHA256File of the verifier     *)
(* Each specification leaves the variables of the other machines alone.    *)
(***************************************************************************)
EXTENDS Integers, Sequences, FiniteSets, TLC

VARIABLES
  \* ---- BufferedWriter (part_000:147-198)
  bwCap,        \* len(bw.buffer)
  buffer,       \* bw.buffer, a sequence of bwCap bytes
  offset,       \* bw.offset
  sink,         \* bytes the underlying writer has accepted, in order
  sinkLog,      \* every call of bw.writer.Write: [data, ok, by]
  passed,       \* concatenation of every p passed to Write so far
  bwPc,         \* "idle" | "loop": position of the caller in Write
  wP,           \* Write's argument p
  remaining,    \* Write's local remaining
  srcOffset,    \* Write's local srcOffset
  bwRet,        \* result of the last completed Write / Flush call
  sinkErrs,     \* sink errors delivered so far
  sinkRet,      \* the error the last call of bw.writer.Write returned
  copied,       \* the bytes Write has copied into the buffer so far, in order
  \* ---- PauseController (part_000:20-57) and its callers
  paused,       \* pc.paused (int32, 0 or 1)
  mu,           \* holder of pc.mu, or NoOne
  notifyList,   \* goroutines parked in pc.cond.Wait, not yet notified
  tpc,          \* position of each Toggle caller
  tLoaded,      \* each Toggle caller's result of atomic.LoadInt32
  started,      \* Toggle calls begun (input lines read from stdin)
  completed,    \* Toggle calls returned
  wpc,          \* position of each data-path caller of WaitIfPaused
  ioDone,       \* chunks each data-path caller has transferred
  parks,        \* times each data-path caller has parked in cond.Wait
  \* ---- archiver: main and addFiles (both variants)
  variant,      \* "single" (part_000) | "batch" (ltfs-zip-archiver/main.go)
  sources,      \* the source roots: [arg: path argument, tree: what is there]
  dest,         \* the destination argument, or NoDest (single: stdout)
  apc,          \* position of main
  exitCode,     \* -1 while running, then the process exit code
  exitErr,      \* which error ended the run, "none" without one
  srcIdx,       \* the source being walked
  todo,         \* paths filepath.Walk has still to visit, in order
  scanned,      \* entries the scan phase has visited, in order
  totalFiles,   \* main's totalFiles
  totalSize,    \* main's totalSize
  destCreated,  \* os.Create(destFile) has created or truncated the file
  archive,      \* what the zip codec was given, in order: headers and data
  curLeft,      \* bytes of the open source file not yet read
  curPath,      \* the callback's path: the entry whose writer is in use
  barCount,     \* bytes added to the progress bar
  stTotal,      \* speedTracker.totalBytes
  fsErrs,       \* filesystem and sink errors delivered so far
  \* ---- verifier: generateSHA256File / verifySHA256File / main
  fname,        \* filepath.Base(filename), as characters
  file,         \* what is at filename: [kind, content]
  sidecar,      \* what is at filename + ".sha256": [exists, content]
  mode,         \* "generate" | "verify": the run in progress or the last one
  vpc,          \* position of the run, "idle" between runs
  runs,         \* runs of the tool started so far
  readPos,      \* offset of the open file
  hashState,    \* bytes written into the sha256 state, in order
  bytesRead,    \* bytes of the file read in this run
  trackTotal,   \* tracker.totalBytes
  processed,    \* tracker.processedBytes
  expectedHash, \* verify: parts[0] of the sidecar
  actualHash,   \* the digest string generateSHA256 returned
  result,       \* the error the run returned, "ok" for nil
  vExit,        \* exit code of the last run, -1 before the first ends
  genOf,        \* content digested by the generate run that wrote the sidecar
  flips,        \* single-byte changes made to the file so far
  ioErrs,       \* I/O errors delivered to the verifier so far
  \* ---- the pause gate as its callers see it
  gatePaused,   \* pc.paused = 1
  gateToggles,  \* calls of Toggle so far
  \* ---- ProgressReader
  prHas,        \* which of bar, speedTracker, pauseController are non-nil
  prPc,         \* position of the caller in Read, "idle" between calls
  prCalls,      \* calls of Read so far
  prChecks,     \* calls of WaitIfPaused made by the current call of Read
  rdN,          \* n of the wrapped reader's Read, -1 before it returned
  rdErr,        \* err of the wrapped reader's Read
  retN,         \* n that Read returned, -1 before the first return
  retErr,       \* err that Read returned
  prBar,        \* sum of the bar.Add arguments
  prTracker,    \* speedTracker.totalBytes
  \* ---- the instrumented Walk callback of addFiles (write phase)
  cpEntries,    \* the entries Walk hands to the callback, in order
  cpIdx,        \* index of the entry the callback is called for
  cpPc,         \* position of the data path in the callback
  cpOff,        \* offset of the open file
  cpChunk,      \* copyBuffer[:n]: bytes read and not yet written and accounted
  cpOut,        \* what the archive's entry writers got, in order
  cpBar,        \* sum of the bar.Add arguments
  cpTracker,    \* speedTracker.totalBytes
  cpGateCalls,  \* calls of WaitIfPaused that have returned
  cpReads       \* calls of file.Read that have returned

\* SpeedTracker and the clock it reads
VARIABLES
  clock,        \* what time.Now() returns, in ticks
  totalBytes,   \* st.totalBytes
  lastBytes,    \* st.lastBytes
  lastTime,     \* st.lastTime
  currentSpeed, \* st.currentSpeed, in bytes per tick
  updBytes,     \* the argument of the last call of Update
  updates       \* calls of Update that have returned

\* main of the archiver from the write phase to the exit of the process
VARIABLES
  shPc,         \* position of main
  deferred,     \* main's deferred calls, in the order of their defer statements
  fileOpen,     \* the destination file is open
  shutLog,      \* the shutdown steps done, in order
  shExit        \* exit code of the process, -1 while it runs

bwVars == <<bwCap, buffer, offset, sink, sinkLog, passed, bwPc, wP,
            remaining, srcOffset, bwRet, sinkErrs, sinkRet, copied>>

pauseVars == <<paused, mu, notifyList, tpc, tLoaded, started, completed, wpc,
               ioDone, parks>>

archVars == <<variant, sources, dest, apc, exitCode, exitErr, srcIdx, todo,
              scanned, totalFiles, totalSize, destCreated, archive, curLeft,
              curPath, barCount, stTotal, fsErrs>>

digestVars == <<fname, file, sidecar, mode, vpc, runs, readPos, hashState,
                bytesRead, trackTotal, processed, expectedHash, actualHash,
                result, vExit, genOf, flips, ioErrs>>

gateVars == <<gatePaused, gateToggles>>

readerVars == <<prHas, prPc, prCalls, prChecks, rdN, rdErr, retN, retErr, prBar,
                prTracker>>

copyVars == <<cpEntries, cpIdx, cpPc, cpOff, cpChunk, cpOut, cpBar, cpTracker,
              cpGateCalls, cpReads>>

speedVars == <<clock, totalBytes, lastBytes, lastTime, currentSpeed, updBytes,
              updates>>

shutVars == <<shPc, deferred, fileOpen, shutLog, shExit>>

vars == <<bwVars, pauseVars, archVars, digestVars, gateVars, readerVars, copyVars,
          speedVars, shutVars>>

\* What the steps of one machine leave alone: the other machines.
otherThanBW ==
  <<pauseVars, archVars, digestVars, gateVars, readerVars, copyVars, speedVars, shutVars>>
otherThanPause ==
  <<bwVars, archVars, digestVars, gateVars, readerVars, copyVars, speedVars, shutVars>>
otherThanArch ==
  <<bwVars, pauseVars, digestVars, gateVars, readerVars, copyVars, speedVars, shutVars>>
otherThanDigest ==
  <<bwVars, pauseVars, archVars, gateVars, readerVars, copyVars, speedVars, shutVars>>
otherThanGate ==
  <<bwVars, pauseVars, archVars, digestVars, readerVars, copyVars, speedVars, shutVars>>
otherThanReader ==
  <<bwVars, pauseVars, archVars, digestVars, gateVars, copyVars, speedVars, shutVars>>
otherThanCopy ==
  <<bwVars, pauseVars, archVars, digestVars, gateVars, readerVars, speedVars, shutVars>>
otherThanSpeed ==
  <<bwVars, pauseVars, archVars, digestVars, gateVars, readerVars, copyVars, shutVars>>
otherThanShutdown ==
  <<pauseVars, archVars, digestVars, gateVars, readerVars, copyVars, speedVars>>

\* ---------------------------------------------------------------- bounds
MaxCap == 3          \* buffer capacities 1..MaxCap
MaxChunk == 4        \* longest p passed to one Write
MaxTotal == 4        \* total bytes passed to Write in one run
MaxSinkErrs == 1     \* sink errors injected in one run

MaxToggles == 4      \* input lines (Toggle calls) in one run
MaxChunks == 2       \* chunks a data-path caller transfers in one run
MaxNodes == 3        \* entries in one source tree
MaxFileSize == 2     \* bytes in one file
MaxArgLen == 2       \* components in a path argument
MaxFsErrs == 1       \* filesystem or sink errors injected in one archiver run
copyBufferSize == 1  \* len(copyBuffer), scaled down from 1 MB
MaxFileLen == 3      \* bytes in the file the verifier is run on
MaxRuns == 3         \* runs of the verifier tool
MaxFlips == 1        \* single-byte changes of the file between runs
MaxIoErrs == 1       \* I/O errors injected into the verifier's runs
bufferSize == 2      \* len(buffer) in generateSHA256, scaled down from 32 MB
MaxGateToggles == 2  \* calls of Toggle while a stream is read
MaxReads == 2        \* calls of ProgressReader.Read
MaxReadN == 2        \* len(p) of a call of ProgressReader.Read
SampleInterval == 2  \* ticks of the clock in 500 ms
MaxClock == 5        \* ticks of the clock in one run
MaxUpdates == 3      \* calls of SpeedTracker.Update
MaxUpdateBytes == 2  \* bytes of one Update
MaxIndex == 2        \* bytes zipWriter.Close() writes

Byte == {1, 2}       \* payload bytes; 0 is the zero value of make([]byte, n)

Min(a, b) == IF a < b THEN a ELSE b

SeqsUpTo(S, k) == UNION {[1..m -> S] : m \in 0..k}

\* ------------------------------------------------------- BufferedWriter

\* NewBufferedWriter(writer, bufSize)
NewBufferedWriter(bufSize) ==
  /\ bwCap = bufSize
  /\ buffer = [i \in 1..bufSize |-> 0]
  /\ offset = 0

InitBW ==
  /\ \E c \in 1..MaxCap : NewBufferedWriter(c)
  /\ sink = <<>>
  /\ sinkLog = <<>>
  /\ passed = <<>>
  /\ bwPc = "idle"
  /\ wP = <<>>
  /\ remaining = 0
  /\ srcOffset = 0
  /\ bwRet = [op |-> "none", n |-> 0, err |-> "nil"]
  /\ sinkErrs = 0
  /\ sinkRet = "nil"
  /\ copied = <<>>

\* The error values a write to the sink may return, besides nil.
SinkErrors == {"ENOSPC", "EIO"}

\* bw.writer.Write(data): the sink takes all of data and returns nil, or
\* takes only its first k bytes and returns the error err.
SinkWrite(data, err, k, by) ==
  /\ sink' = sink \o (IF err # "nil" THEN SubSeq(data, 1, k) ELSE data)
  /\ sinkLog' = Append(sinkLog, [data |-> data, ok |-> err = "nil", by |-> by])
  /\ sinkErrs' = IF err # "nil" THEN sinkErrs + 1 ELSE sinkErrs
  /\ sinkRet' = err

\* The outcomes the sink may choose for a write of m bytes.
SinkOutcomes(m) ==
  {<<"nil", m>>} \cup
  (IF sinkErrs < MaxSinkErrs
     THEN {<<e, k>> : e \in SinkErrors, k \in 0..(m - 1)} ELSE {})

\* BufferedWriter.Flush: its effect on the writer and the sink; FlushErr is
\* the error it returns.
FlushErr(err) == IF offset # 0 THEN err ELSE "nil"

\* Flush as it would be if it wrote the whole of bw.buffer.
FlushWholeBuffer(err, k, by) ==
  IF offset = 0
    THEN UNCHANGED <<sink, sinkLog, sinkErrs, sinkRet, offset>>
    ELSE /\ SinkWrite(buffer, err, Min(k, Len(buffer)), by)
         /\ offset' = 0

\* Flush as it would be if it tried a failed sink write a second time.
FlushRetrying(err, k, by) ==
  IF offset = 0
    THEN UNCHANGED <<sink, sinkLog, sinkErrs, sinkRet, offset>>
    ELSE LET data == SubSeq(buffer, 1, offset)
             rec(e) == [data |-> data, ok |-> e = "nil", by |-> by]
         IN /\ sink' = sink \o (IF err # "nil" THEN SubSeq(data, 1, k) ELSE <<>>)
                             \o data
            /\ sinkLog' = sinkLog \o (IF err # "nil" THEN <<rec(err)>> ELSE <<>>)
                                  \o <<rec("nil")>>
            /\ sinkErrs' = IF err # "nil" THEN sinkErrs + 1 ELSE sinkErrs
            /\ sinkRet' = "nil"
            /\ offset' = 0

\* Flush as it would be if it kept the buffer when the sink fails.
FlushKeepsOnError(err, k, by) ==
  IF offset = 0
    THEN UNCHANGED <<sink, sinkLog, sinkErrs, sinkRet, offset>>
    ELSE /\ SinkWrite(SubSeq(buffer, 1, offset), err, k, by)
         /\ offset' = IF err # "nil" THEN offset ELSE 0

Flush(err, k, by) ==
  IF offset = 0
    THEN UNCHANGED <<sink, sinkLog, sinkErrs, sinkRet, offset>>
    ELSE /\ SinkWrite(SubSeq(buffer, 1, offset), err, k, by)
         /\ offset' = 0

\* Write, entry: n = len(p); remaining = len(p); srcOffset = 0
WriteCall ==
  /\ bwPc = "idle"
  /\ \E data \in SeqsUpTo(Byte, Min(MaxChunk, MaxTotal - Len(passed))) :
       /\ wP' = data
       /\ remaining' = Len(data)
       /\ passed' = passed \o data
  /\ srcOffset' = 0
  /\ bwPc' = "loop"
  /\ UNCHANGED <<bwCap, buffer, offset, sink, sinkLog, bwRet, sinkErrs, sinkRet,
                 copied>>
  /\ UNCHANGED otherThanBW

\* CopyIn as it would be if the source slice ignored srcOffset (p[:copySize]).
CopyInFromStart(at, copySize) ==
  /\ buffer' = [i \in 1..bwCap |->
                  IF at < i /\ i <= at + copySize
                    THEN wP[i - at] ELSE buffer[i]]
  /\ offset' = at + copySize
  /\ srcOffset' = srcOffset + copySize
  /\ remaining' = remaining - copySize

\* copy(bw.buffer[bw.offset:], p[srcOffset:srcOffset+copySize]) and the three
\* index updates after it.
CopyIn(at, copySize) ==
  /\ buffer' = [i \in 1..bwCap |->
                  IF at < i /\ i <= at + copySize
                    THEN wP[srcOffset + (i - at)] ELSE buffer[i]]
  /\ offset' = at + copySize
  /\ srcOffset' = srcOffset + copySize
  /\ remaining' = remaining - copySize

\* available as it would be if Write kept the last byte of the buffer free.
AvailableButOne == bwCap - offset - 1

\* available := len(bw.buffer) - bw.offset
Available == bwCap - offset

\* Write's loop with available == 0: Flush; on an error return
\* (n - remaining, err), otherwise go on with available = len(bw.buffer),
\* which is the copy step below with offset = 0.
WriteFlushIter ==
  /\ bwPc = "loop" /\ remaining > 0
  /\ Available = 0
  /\ \E o \in SinkOutcomes(offset) :
       /\ Flush(o[1], o[2], "Write")
       /\ IF FlushErr(o[1]) # "nil"
            THEN /\ bwRet' = [op |-> "Write", n |-> Len(wP) - remaining,
                              err |-> FlushErr(o[1])]
                 /\ bwPc' = "idle"
            ELSE UNCHANGED <<bwRet, bwPc>>
  /\ UNCHANGED <<bwCap, buffer, passed, wP, remaining, srcOffset, copied>>
  /\ UNCHANGED otherThanBW

\* Write's loop with available > 0: copySize = min(remaining, available).
WriteCopyIter ==
  /\ bwPc = "loop" /\ remaining > 0
  /\ Available > 0
  /\ CopyIn(offset, Min(remaining, Available))
  /\ copied' = copied \o SubSeq(wP, srcOffset + 1, srcOffset')
  /\ UNCHANGED <<bwCap, sink, sinkLog, sinkErrs, sinkRet, passed, wP, bwRet, bwPc>>
  /\ UNCHANGED otherThanBW

\* return n, nil
WriteReturn ==
  /\ bwPc = "loop" /\ remaining = 0
  /\ bwRet' = [op |-> "Write", n |-> Len(wP), err |-> "nil"]
  /\ bwPc' = "idle"
  /\ UNCHANGED <<bwCap, buffer, offset, sink, sinkLog, sinkErrs, sinkRet, passed, wP,
                 remaining, srcOffset, copied>>
  /\ UNCHANGED otherThanBW

\* An explicit call of Flush by the owner of the writer.
FlushCall ==
  /\ bwPc = "idle"
  /\ \E o \in SinkOutcomes(offset) :
       /\ Flush(o[1], o[2], "Flush")
       /\ bwRet' = [op |-> "Flush", n |-> 0, err |-> FlushErr(o[1])]
  /\ UNCHANGED <<bwCap, buffer, passed, bwPc, wP, remaining, srcOffset, copied>>
  /\ UNCHANGED otherThanBW

NextBW == WriteCall \/ WriteFlushIter \/ WriteCopyIter \/ WriteReturn \/ FlushCall

\* ------------------------------------------------------ PauseController

NoOne == "none"
Togglers == {"t1", "t2"}     \* goroutines calling Toggle
Waiters == {"w1", "w2"}      \* goroutines calling WaitIfPaused

\* NewPauseController(): paused = 0, the mutex free, nobody waiting.
InitPause ==
  /\ paused = 0
  /\ mu = NoOne
  /\ notifyList = {}
  /\ tpc = [t \in Togglers |-> "idle"]
  /\ tLoaded = [t \in Togglers |-> 0]
  /\ started = 0
  /\ completed = 0
  /\ wpc = [w \in Waiters |-> "call"]
  /\ ioDone = [w \in Waiters |-> 0]
  /\ parks = [w \in Waiters |-> 0]

\* pc.mu.Lock() as it would be if it did not wait for the holder.
LockNoWait(self) == mu' = self

\* pc.mu.Lock()
Lock(self) == mu = NoOne /\ mu' = self

\* Toggle: pc.mu.Lock()
ToggleLock(t) ==
  /\ tpc[t] = "idle" /\ started < MaxToggles
  /\ Lock(t)
  /\ tpc' = [tpc EXCEPT ![t] = "load"]
  /\ started' = started + 1
  /\ UNCHANGED <<paused, notifyList, tLoaded, completed, wpc, ioDone, parks>>
  /\ UNCHANGED otherThanPause

\* Toggle: atomic.LoadInt32(&pc.paused) == 0
ToggleLoad(t) ==
  /\ tpc[t] = "load"
  /\ tLoaded' = [tLoaded EXCEPT ![t] = paused]
  /\ tpc' = [tpc EXCEPT ![t] = "store"]
  /\ UNCHANGED <<paused, mu, notifyList, started, completed, wpc, ioDone, parks>>
  /\ UNCHANGED otherThanPause

\* Toggle: atomic.StoreInt32(&pc.paused, 1) or (&pc.paused, 0)
ToggleStore(t) ==
  /\ tpc[t] = "store"
  /\ IF tLoaded[t] = 0
       THEN paused' = 1 /\ tpc' = [tpc EXCEPT ![t] = "unlock"]
       ELSE paused' = 0 /\ tpc' = [tpc EXCEPT ![t] = "broadcast"]
  /\ UNCHANGED <<mu, notifyList, tLoaded, started, completed, wpc, ioDone, parks>>
  /\ UNCHANGED otherThanPause

\* pc.cond.Broadcast() as it would be if the resume branch did not signal.
NoBroadcast == UNCHANGED <<notifyList, wpc>>

\* pc.cond.Broadcast(): every parked goroutine is made runnable.
Broadcast ==
  /\ notifyList' = {}
  /\ wpc' = [w \in Waiters |-> IF w \in notifyList THEN "woken" ELSE wpc[w]]

\* Toggle, resume branch: pc.cond.Broadcast()
ToggleBroadcast(t) ==
  /\ tpc[t] = "broadcast"
  /\ Broadcast
  /\ tpc' = [tpc EXCEPT ![t] = "unlock"]
  /\ UNCHANGED <<paused, mu, tLoaded, started, completed, ioDone, parks>>
  /\ UNCHANGED otherThanPause

\* Toggle: deferred pc.mu.Unlock(), return
ToggleUnlock(t) ==
  /\ tpc[t] = "unlock"
  /\ mu' = NoOne
  /\ tpc' = [tpc EXCEPT ![t] = "idle"]
  /\ completed' = completed + 1
  /\ UNCHANGED <<paused, notifyList, tLoaded, started, wpc, ioDone, parks>>
  /\ UNCHANGED otherThanPause

\* WaitIfPaused: pc.mu.Lock()
WaitLock(w) ==
  /\ wpc[w] = "call"
  /\ Lock(w)
  /\ wpc' = [wpc EXCEPT ![w] = "check"]
  /\ UNCHANGED <<paused, notifyList, tpc, tLoaded, started, completed, ioDone,
                 parks>>
  /\ UNCHANGED otherThanPause

\* The position after cond.Wait has returned, as it would be with
\* `if paused == 1 { Wait() }` instead of the for loop.
AfterWaitNoRecheck == "unlock"

\* The position after cond.Wait has returned: the for loop tests again.
AfterWait == "check"

\* WaitIfPaused: for atomic.LoadInt32(&pc.paused) == 1 { pc.cond.Wait() }.
\* Wait puts the caller on the notify list and unlocks, in one step with
\* respect to every holder of the mutex.
WaitCheck(w) ==
  /\ wpc[w] = "check"
  /\ IF paused = 1
       THEN /\ notifyList' = notifyList \cup {w}
            /\ mu' = NoOne
            /\ wpc' = [wpc EXCEPT ![w] = "waiting"]
            /\ parks' = [parks EXCEPT ![w] = @ + 1]
       ELSE /\ wpc' = [wpc EXCEPT ![w] = "unlock"]
            /\ UNCHANGED <<notifyList, mu, parks>>
  /\ UNCHANGED <<paused, tpc, tLoaded, started, completed, ioDone>>
  /\ UNCHANGED otherThanPause

\* cond.Wait, second half: the notified goroutine locks the mutex again.
WaitWake(w) ==
  /\ wpc[w] = "woken"
  /\ Lock(w)
  /\ wpc' = [wpc EXCEPT ![w] = AfterWait]
  /\ UNCHANGED <<paused, notifyList, tpc, tLoaded, started, completed, ioDone,
                 parks>>
  /\ UNCHANGED otherThanPause

\* WaitIfPaused: deferred pc.mu.Unlock(), return
WaitUnlock(w) ==
  /\ wpc[w] = "unlock"
  /\ mu' = NoOne
  /\ wpc' = [wpc EXCEPT ![w] = "io"]
  /\ UNCHANGED <<paused, notifyList, tpc, tLoaded, started, completed, ioDone,
                 parks>>
  /\ UNCHANGED otherThanPause

\* The caller's I/O after WaitIfPaused returned: one chunk is read, written
\* and accounted; then the next WaitIfPaused, or the end of the data.
ChunkIO(w) ==
  /\ wpc[w] = "io"
  /\ ioDone' = [ioDone EXCEPT ![w] = @ + 1]
  /\ wpc' = [wpc EXCEPT ![w] = IF ioDone[w] + 1 < MaxChunks THEN "call" ELSE "done"]
  /\ UNCHANGED <<paused, mu, notifyList, tpc, tLoaded, started, completed,
                 parks>>
  /\ UNCHANGED otherThanPause

TogglerStep(t) ==
  ToggleLoad(t) \/ ToggleStore(t) \/ ToggleBroadcast(t) \/ ToggleUnlock(t)

WaiterStep(w) ==
  WaitLock(w) \/ WaitCheck(w) \/ WaitWake(w) \/ WaitUnlock(w) \/ ChunkIO(w)

NextPause ==
  \/ \E t \in Togglers : ToggleLock(t) \/ TogglerStep(t)
  \/ \E w \in Waiters : WaiterStep(w)

\* ------------------------------------------------- archiver: the inputs

\* A path argument: absolute or relative, and its components as written.
Comps == {"d", "d2", ".."}
PathArgs == [abs : BOOLEAN, comps : SeqsUpTo(Comps, MaxArgLen)]
\* No destination argument (os.Args has no third element): not a path.
NoDest == [abs |-> FALSE, comps |-> <<"(stdout)">>]

\* The working directory of the process: /d
Cwd == <<"d">>

\* filepath.Clean on components: ".." removes the component before it, and
\* stays at the root when there is none.
RECURSIVE CleanFrom(_, _)
CleanFrom(done, rest) ==
  IF rest = <<>> THEN done
  ELSE IF Head(rest) = ".."
    THEN CleanFrom(IF done = <<>> THEN <<>> ELSE SubSeq(done, 1, Len(done) - 1),
                   Tail(rest))
    ELSE CleanFrom(Append(done, Head(rest)), Tail(rest))

\* The components of filepath.Abs(arg)
AbsComps(arg) == CleanFrom(<<>>, IF arg.abs THEN arg.comps ELSE Cwd \o arg.comps)

\* The characters of one component.
Chars(c) == IF c = "d2" THEN <<"d", "2">> ELSE <<c>>

RECURSIVE Render(_)
Render(cs) ==
  IF cs = <<>> THEN <<>> ELSE <<"/">> \o Chars(Head(cs)) \o Render(Tail(cs))

\* filepath.Abs(arg) as a string: "/" for the root, else /c1/c2...
Abs(arg) == IF AbsComps(arg) = <<>> THEN <<"/">> ELSE Render(AbsComps(arg))

\* strings.HasPrefix(str, prefix)
HasPrefix(str, prefix) ==
  Len(prefix) <= Len(str) /\ SubSeq(str, 1, Len(prefix)) = prefix

\* A source tree: what os.Lstat, the directory listing, os.Open and Read find
\* below a source root. Names are listed in the directory's lexical order.
NameOrder == <<"a", "b">>
Names == {NameOrder[i] : i \in DOMAIN NameOrder}
TreePaths ==
  {<<>>} \cup {<<x>> : x \in Names} \cup {<<x, y>> : x \in Names, y \in Names}

\* kind: "none" (no such entry), "dir", "file", or "link" (a symbolic link to
\* a regular file). size is what Lstat reports (info.Size()): for a link the
\* length of its target path. content is the number of bytes os.Open and
\* Read deliver: the file's, or the link target's.
NoNode == [kind |-> "none", size |-> 0, content |-> 0]
DirNode == [kind |-> "dir", size |-> 0, content |-> 0]
FileNode(k) == [kind |-> "file", size |-> k, content |-> k]
LinkNode(k) == [kind |-> "link", size |-> 1, content |-> k]
LeafNodes ==
  {DirNode} \cup {FileNode(k) : k \in 0..MaxFileSize}
            \cup {LinkNode(k) : k \in {0, MaxFileSize}}

Parent(q) == SubSeq(q, 1, Len(q) - 1)

Shapes ==
  {S \in SUBSET TreePaths :
     /\ <<>> \in S
     /\ Cardinality(S) <= MaxNodes
     /\ \A q \in S : q # <<>> => Parent(q) \in S}

LeavesOf(S) == {q \in S : \A r \in S : r = <<>> \/ Parent(r) # q}

TreesOfShape(S) ==
  {[q \in TreePaths |->
      IF q \notin S THEN NoNode
      ELSE IF q \in LeavesOf(S) THEN f[q] ELSE DirNode] :
   f \in [LeavesOf(S) -> LeafNodes]}

MissingRoot == [q \in TreePaths |-> NoNode]

Trees == {MissingRoot} \cup UNION {TreesOfShape(S) : S \in Shapes}

NodeCount(t) == Cardinality({q \in TreePaths : t[q].kind # "none"})

Exists(t, q) == q \in TreePaths /\ t[q].kind # "none"

\* The entries of directory q, as readDirNames returns them: sorted by name.
Children(t, q) ==
  SelectSeq([i \in DOMAIN NameOrder |-> Append(q, NameOrder[i])],
            LAMBDA c : Exists(t, c))

\* --------------------------------------------------- archiver: the runs

Root == <<>>

\* The tree for the runs that vary the path arguments: a file of one byte.
ProbeTree == [q \in TreePaths |-> IF q = Root THEN FileNode(1) ELSE NoNode]

\* Arguments that pass the guard: source /d2, destination /d/d.
SrcArg == [abs |-> TRUE, comps |-> <<"d2">>]
DestArg == [abs |-> TRUE, comps |-> <<"d", "d">>]

Source(a, t) == [arg |-> a, tree |-> t]

\* Runs over every tree, with arguments that pass the guard.
TreeRuns ==
  {[variant |-> "single", sources |-> <<Source(SrcArg, t)>>, dest |-> d] :
     t \in Trees, d \in {DestArg, NoDest}}
  \cup
  {[variant |-> "batch", sources |-> <<Source(SrcArg, t), Source(SrcArg, u)>>,
    dest |-> DestArg] :
     t \in {x \in Trees : NodeCount(x) < MaxNodes},
     u \in {x \in Trees : NodeCount(x) < MaxNodes}}

ShortArgs == {a \in PathArgs : Len(a.comps) < MaxArgLen}

\* Runs over the path arguments, on one tree.
ArgRuns ==
  {[variant |-> "single", sources |-> <<Source(a, ProbeTree)>>, dest |-> d] :
     a \in PathArgs, d \in PathArgs}
  \cup
  {[variant |-> "batch", sources |-> ss, dest |-> d] :
     ss \in UNION {{<<Source(a, ProbeTree), Source(SrcArg, ProbeTree)>>,
                    <<Source(SrcArg, ProbeTree), Source(a, ProbeTree)>>} :
                   a \in ShortArgs},
     d \in PathArgs}

Runs ==
  {r \in TreeRuns :
     r.variant = "batch" =>
       NodeCount(r.sources[1].tree) + NodeCount(r.sources[2].tree) <= MaxNodes}
  \cup ArgRuns

InitArch ==
  /\ \E r \in Runs :
       /\ variant = r.variant
       /\ sources = r.sources
       /\ dest = r.dest
  /\ apc = "start"
  /\ exitCode = -1
  /\ exitErr = "none"
  /\ srcIdx = 1
  /\ todo = <<>>
  /\ scanned = <<>>
  /\ totalFiles = 0
  /\ totalSize = 0
  /\ destCreated = FALSE
  /\ archive = <<>>
  /\ curLeft = 0
  /\ curPath = Root
  /\ barCount = 0
  /\ stTotal = 0
  /\ fsErrs = 0

\* The error as it would be handled by log.Printf: logged, and the run goes on.
LogAndGoOn(kind) ==
  /\ exitErr' = kind
  /\ UNCHANGED <<apc, exitCode>>

\* log.Fatalf / log.Fatalln, and os.Exit(1) of the stdout mode: the process
\* exits at once; deferred calls do not run.
Fatal(kind) ==
  /\ apc' = "exited"
  /\ exitCode' = 1
  /\ exitErr' = kind

\* bar, speedTracker and pauseController are non-nil (a destination is given).
Instrumented == dest # NoDest

\* The guard as it would be if the source had to be followed by a separator.
SelfInclusionUpToSeparator ==
  \E i \in DOMAIN sources : HasPrefix(Abs(dest), Abs(sources[i].arg) \o <<"/">>)

\* The guard as it would be with the arguments of HasPrefix exchanged.
SelfInclusionSwapped ==
  \E i \in DOMAIN sources : HasPrefix(Abs(sources[i].arg), Abs(dest))

\* strings.HasPrefix(absDest, absSource), for the source (single) or for any
\* source of the list (batch).
SelfInclusion ==
  \E i \in DOMAIN sources : HasPrefix(Abs(dest), Abs(sources[i].arg))

\* main with a destination: the guard, before anything else is done.
Guard ==
  /\ apc = "start" /\ dest # NoDest
  /\ IF SelfInclusion
       THEN Fatal("selfinclusion") /\ UNCHANGED todo
       ELSE /\ apc' = "scan"
            /\ todo' = <<Root>>
            /\ UNCHANGED <<exitCode, exitErr>>
  /\ UNCHANGED <<variant, sources, dest, srcIdx, scanned, totalFiles, totalSize,
                 destCreated, archive, curLeft, curPath, barCount, stTotal, fsErrs>>
  /\ UNCHANGED otherThanArch

\* main without a destination (single variant): straight to addFiles.
StdoutStart ==
  /\ apc = "start" /\ dest = NoDest
  /\ apc' = "addFiles"
  /\ UNCHANGED <<variant, sources, dest, exitCode, exitErr, srcIdx, todo, scanned,
                 totalFiles, totalSize, destCreated, archive, curLeft, curPath, barCount,
                 stTotal, fsErrs>>
  /\ UNCHANGED otherThanArch

CurTree == sources[srcIdx].tree

\* filepath.Walk after the callback has returned nil for q: a directory's
\* entries come next, in name order, before what was pending.
WalkOn(q) ==
  IF CurTree[q].kind = "dir" THEN Children(CurTree, q) \o Tail(todo) ELSE Tail(todo)

\* Scan phase: one call of the Walk callback.
ScanVisit ==
  /\ apc = "scan" /\ todo # <<>>
  /\ LET q == Head(todo)
         node == CurTree[q]
     IN IF node.kind = "none"
          THEN \* Lstat(root) fails: the callback gets err and returns it
               /\ Fatal("scan")
               /\ UNCHANGED <<todo, scanned, totalFiles, totalSize>>
          ELSE /\ scanned' = Append(scanned, [src |-> srcIdx, path |-> q])
               /\ IF node.kind # "dir"
                    THEN /\ totalFiles' = totalFiles + 1
                         /\ totalSize' = totalSize + node.size
                    ELSE UNCHANGED <<totalFiles, totalSize>>
               /\ todo' = WalkOn(q)
               /\ UNCHANGED <<apc, exitCode, exitErr>>
  /\ UNCHANGED <<variant, sources, dest, srcIdx, destCreated, archive, curLeft, curPath,
                 barCount, stTotal, fsErrs>>
  /\ UNCHANGED otherThanArch

\* Scan phase: Walk of one source has returned nil; the next source, or on.
ScanSourceDone ==
  /\ apc = "scan" /\ todo = <<>>
  /\ IF srcIdx < Len(sources)
       THEN srcIdx' = srcIdx + 1 /\ todo' = <<Root>> /\ UNCHANGED apc
       ELSE apc' = "create" /\ UNCHANGED <<srcIdx, todo>>
  /\ UNCHANGED <<variant, sources, dest, exitCode, exitErr, scanned, totalFiles,
                 totalSize, destCreated, archive, curLeft, curPath, barCount, stTotal, fsErrs>>
  /\ UNCHANGED otherThanArch

\* os.Create(destFile)
CreateDest ==
  /\ apc = "create"
  /\ destCreated' = TRUE
  /\ apc' = "addFiles"
  /\ srcIdx' = 1
  /\ UNCHANGED <<variant, sources, dest, exitCode, exitErr, todo, scanned,
                 totalFiles, totalSize, archive, curLeft, curPath, barCount, stTotal, fsErrs>>
  /\ UNCHANGED otherThanArch

\* addFiles: os.Stat(basePath), then filepath.Walk(basePath, ...)
AddFilesStat ==
  /\ apc = "addFiles"
  /\ IF CurTree[Root].kind = "none"
       THEN Fatal("write") /\ UNCHANGED todo
       ELSE apc' = "walk" /\ todo' = <<Root>> /\ UNCHANGED <<exitCode, exitErr>>
  /\ UNCHANGED <<variant, sources, dest, srcIdx, scanned, totalFiles, totalSize,
                 destCreated, archive, curLeft, curPath, barCount, stTotal, fsErrs>>
  /\ UNCHANGED otherThanArch

\* The header as it would be if directories were not told apart.
HeaderNeverDir(q) ==
  [op |-> "hdr", src |-> srcIdx, path |-> q, dir |-> FALSE, n |-> 0]

Header(q) ==
  [op |-> "hdr", src |-> srcIdx, path |-> q, dir |-> CurTree[q].kind = "dir", n |-> 0]

Data(q, k) ==
  [op |-> "data", src |-> srcIdx, path |-> q, dir |-> FALSE, n |-> k]

\* CreateHeader as it would be if directories returned before it.
CreateHeaderFilesOnly(q) ==
  archive' = IF CurTree[q].kind = "dir" THEN archive ELSE Append(archive, Header(q))

\* w.CreateHeader(header): the entry's header goes to the codec.
CreateHeader(q) == archive' = Append(archive, Header(q))

\* Write phase: one call of the Walk callback up to the copy loop: header,
\* and for a non-directory os.Open.
WalkVisit ==
  /\ apc = "walk" /\ todo # <<>>
  /\ LET q == Head(todo)
     IN /\ CreateHeader(q)
        /\ todo' = WalkOn(q)
        /\ IF CurTree[q].kind = "dir"
             THEN UNCHANGED <<apc, curLeft, curPath>>
             ELSE apc' = "copy" /\ curLeft' = CurTree[q].content /\ curPath' = q
  /\ UNCHANGED <<variant, sources, dest, exitCode, exitErr, srcIdx, scanned,
                 totalFiles, totalSize, destCreated, barCount, stTotal, fsErrs>>
  /\ UNCHANGED otherThanArch

\* bar.Add(n) and speedTracker.Update(int64(n)), when they are there.
Account(k) ==
  IF Instrumented
    THEN barCount' = barCount + k /\ stTotal' = stTotal + k
    ELSE UNCHANGED <<barCount, stTotal>>

\* Copy loop: file.Read returned n > 0 and nil; writer.Write; accounting.
CopyChunk ==
  /\ apc = "copy" /\ curLeft > 0
  /\ \E k \in 1..Min(copyBufferSize, curLeft) :
       /\ archive' = Append(archive, Data(curPath, k))
       /\ Account(k)
       /\ curLeft' = curLeft - k
  /\ UNCHANGED <<variant, sources, dest, apc, exitCode, exitErr, srcIdx, todo,
                 scanned, totalFiles, totalSize, destCreated, curPath, fsErrs>>
  /\ UNCHANGED otherThanArch

\* Copy loop: file.Read returned 0 and io.EOF; break, the callback returns nil.
CopyEOF ==
  /\ apc = "copy" /\ curLeft = 0
  /\ apc' = "walk"
  /\ UNCHANGED <<variant, sources, dest, exitCode, exitErr, srcIdx, todo, scanned,
                 totalFiles, totalSize, destCreated, archive, curLeft, curPath, barCount,
                 stTotal, fsErrs>>
  /\ UNCHANGED otherThanArch

\* addFiles of one source has returned nil; the next source, or the end.
WalkSourceDone ==
  /\ apc = "walk" /\ todo = <<>>
  /\ IF srcIdx < Len(sources)
       THEN srcIdx' = srcIdx + 1 /\ apc' = "addFiles"
       ELSE apc' = "finish" /\ UNCHANGED srcIdx
  /\ UNCHANGED <<variant, sources, dest, exitCode, exitErr, todo, scanned,
                 totalFiles, totalSize, destCreated, archive, curLeft, curPath, barCount,
                 stTotal, fsErrs>>
  /\ UNCHANGED otherThanArch

\* main returns: the deferred zipWriter.Close() writes the index, the buffer
\* is flushed, the file closed; exit code 0.
Finish ==
  /\ apc = "finish"
  /\ archive' = Append(archive, [op |-> "index", src |-> 0, path |-> Root,
                                 dir |-> FALSE, n |-> 0])
  /\ apc' = "exited"
  /\ exitCode' = 0
  /\ UNCHANGED <<variant, sources, dest, exitErr, srcIdx, todo, scanned, totalFiles,
                 totalSize, destCreated, curLeft, curPath, barCount, stTotal, fsErrs>>
  /\ UNCHANGED otherThanArch

\* main returns and a sink write fails in the deferred zipWriter.Close() or
\* bufferedFile.Flush() (zipWriter.Close() alone without a destination):
\* both return values are dropped, the completion message has already been
\* logged, and the process exits with 0.
FinishSinkError ==
  /\ apc = "finish"
  /\ fsErrs < MaxFsErrs
  /\ fsErrs' = fsErrs + 1
  /\ apc' = "exited"
  /\ exitCode' = 0
  /\ UNCHANGED <<variant, sources, dest, exitErr, srcIdx, todo, scanned, totalFiles,
                 totalSize, destCreated, archive, curLeft, curPath, barCount, stTotal>>
  /\ UNCHANGED otherThanArch

\* An error of the filesystem or of the sink where the code checks for one:
\* Lstat or the directory listing (the callback's err), os.Create, os.Stat,
\* CreateHeader, file.Read, writer.Write. Each is fatal.
FsError ==
  /\ fsErrs < MaxFsErrs
  /\ \/ apc \in {"scan", "walk"} /\ todo # <<>>
     \/ apc \in {"create", "addFiles", "copy"}
  /\ fsErrs' = fsErrs + 1
  /\ Fatal(IF apc = "scan" THEN "scan" ELSE IF apc = "create" THEN "create" ELSE "write")
  /\ UNCHANGED <<variant, sources, dest, srcIdx, todo, scanned, totalFiles,
                 totalSize, destCreated, archive, curLeft, curPath, barCount, stTotal>>
  /\ UNCHANGED otherThanArch

\* os.Open(path) fails after the entry's header was created.
OpenError ==
  /\ fsErrs < MaxFsErrs
  /\ apc = "walk" /\ todo # <<>> /\ CurTree[Head(todo)].kind # "dir"
  /\ CreateHeader(Head(todo))
  /\ fsErrs' = fsErrs + 1
  /\ Fatal("write")
  /\ UNCHANGED <<variant, sources, dest, srcIdx, todo, scanned, totalFiles,
                 totalSize, destCreated, curLeft, curPath, barCount, stTotal>>
  /\ UNCHANGED otherThanArch

NextArch ==
  \/ Guard \/ StdoutStart \/ ScanVisit \/ ScanSourceDone \/ CreateDest
  \/ AddFilesStat \/ WalkVisit \/ CopyChunk \/ CopyEOF \/ WalkSourceDone
  \/ Finish \/ FinishSinkError \/ FsError \/ OpenError

\* -------------------------------------------------------------- verifier

Bit == {0, 1}                 \* the values a byte of the file takes
Whitespace == {" ", "\n"}
HexDigits == <<"0", "1", "2", "3", "4", "5", "6", "7", "8", "9",
               "a", "b", "c", "d", "e", "f">>

\* The base names of the files the tool is run on: "f" and " f".
FileNames == {<<"f">>, <<" ", "f">>}

\* sha256 as an injective function of the bytes written into it: one digest
\* byte 2^len + (the bits read as a binary number); different inputs of up to
\* seven bits give different digests, of the same length.
RECURSIVE BitsValue(_)
BitsValue(bs) ==
  IF bs = <<>> THEN 0 ELSE 2 * BitsValue(SubSeq(bs, 1, Len(bs) - 1)) + bs[Len(bs)]

Sum256(bs) == <<(2 ^ Len(bs)) + BitsValue(bs)>>

\* fmt.Sprintf("%x", digest): two lowercase hex digits per byte.
RECURSIVE Hex(_)
Hex(digest) ==
  IF digest = <<>> THEN <<>>
  ELSE <<HexDigits[(Head(digest) \div 16) + 1], HexDigits[(Head(digest) % 16) + 1]>>
       \o Hex(Tail(digest))

\* The sidecar as it would be written with the name before the digest.
SidecarLineNameFirst(hash, base) == base \o <<" ", " ">> \o hash \o <<"\n">>

\* fmt.Sprintf("%s  %s\n", hash, filepath.Base(filename))
SidecarLine(hash, base) == hash \o <<" ", " ">> \o base \o <<"\n">>

\* strings.TrimSpace
RECURSIVE TrimLeft(_)
TrimLeft(str) ==
  IF str # <<>> /\ Head(str) \in Whitespace THEN TrimLeft(Tail(str)) ELSE str

RECURSIVE TrimRight(_)
TrimRight(str) ==
  IF str # <<>> /\ str[Len(str)] \in Whitespace
    THEN TrimRight(SubSeq(str, 1, Len(str) - 1)) ELSE str

TrimSpace(str) == TrimRight(TrimLeft(str))

\* strings.Fields: the maximal runs of non-whitespace characters.
RECURSIVE FieldsFrom(_, _, _)
FieldsFrom(str, cur, acc) ==
  IF str = <<>> THEN (IF cur = <<>> THEN acc ELSE Append(acc, cur))
  ELSE IF Head(str) \in Whitespace
    THEN FieldsFrom(Tail(str), <<>>, IF cur = <<>> THEN acc ELSE Append(acc, cur))
    ELSE FieldsFrom(Tail(str), Append(cur, Head(str)), acc)

\* The split as it would be with strings.Split(line, " "): a line without
\* any token gives one empty token.
SplitOnSpace(str) ==
  LET parts == FieldsFrom(str, <<>>, <<>>)
  IN IF parts = <<>> THEN <<<<>>>> ELSE parts

Fields(str) == FieldsFrom(str, <<>>, <<>>)

NoFile == [kind |-> "none", content |-> <<>>]
Directory == [kind |-> "dir", content |-> <<>>]
Regular(c) == [kind |-> "file", content |-> c]

NoSidecar == [exists |-> FALSE, content |-> <<>>]
Sidecar(c) == [exists |-> TRUE, content |-> c]

\* Sidecars found before the first run: none, an empty or blank one, a digest
\* alone, a line left by an earlier generate, something that is no digest.
FoundSidecars ==
  {NoSidecar, Sidecar(<<>>), Sidecar(<<" ", "\n">>), Sidecar(<<"f">>)}
  \cup {Sidecar(Hex(Sum256(c))) : c \in SeqsUpTo(Bit, 1)}
  \cup {Sidecar(SidecarLine(Hex(Sum256(c)), <<"f">>)) : c \in SeqsUpTo(Bit, 1)}

\* No generate run of this history has written the sidecar.
NoGen == <<2>>

InitDigest ==
  /\ fname \in FileNames
  /\ file \in {NoFile, Directory} \cup {Regular(c) : c \in SeqsUpTo(Bit, MaxFileLen)}
  /\ sidecar \in FoundSidecars
  /\ mode = "none"
  /\ vpc = "idle"
  /\ runs = 0
  /\ readPos = 0
  /\ hashState = <<>>
  /\ bytesRead = 0
  /\ trackTotal = 0
  /\ processed = 0
  /\ expectedHash = <<>>
  /\ actualHash = <<>>
  /\ result = "none"
  /\ vExit = -1
  /\ genOf = NoGen
  /\ flips = 0
  /\ ioErrs = 0

\* The run returns err to main: nil, or an error that main logs before
\* os.Exit(1).
Return(err) ==
  /\ result' = err
  /\ vExit' = IF err = "ok" THEN 0 ELSE 1
  /\ vpc' = "idle"

\* main: the mode argument selects generateSHA256File or verifySHA256File.
StartRun ==
  /\ vpc = "idle" /\ runs < MaxRuns
  /\ mode' \in {"generate", "verify"}
  /\ runs' = runs + 1
  /\ vpc' = "stat"
  /\ readPos' = 0 /\ hashState' = <<>> /\ bytesRead' = 0
  /\ expectedHash' = <<>> /\ actualHash' = <<>>
  /\ result' = "none" /\ vExit' = -1
  /\ UNCHANGED <<fname, file, sidecar, trackTotal, processed, genOf, flips, ioErrs>>
  /\ UNCHANGED otherThanDigest

\* tracker.reset(info.Size(), filename)
TrackerReset ==
  /\ trackTotal' = Len(file.content)
  /\ processed' = 0

\* os.Stat(filename) and info.IsDir(), in both modes; generate goes on to
\* tracker.reset and generateSHA256.
StatFile ==
  /\ vpc = "stat"
  /\ IF file.kind = "none" THEN Return("notfound") /\ UNCHANGED <<trackTotal, processed>>
     ELSE IF file.kind = "dir" THEN Return("isdir") /\ UNCHANGED <<trackTotal, processed>>
     ELSE IF mode = "generate"
       THEN TrackerReset /\ vpc' = "open" /\ UNCHANGED <<result, vExit>>
       ELSE vpc' = "statSidecar" /\ UNCHANGED <<result, vExit, trackTotal, processed>>
  /\ UNCHANGED <<fname, file, sidecar, mode, runs, readPos, hashState, bytesRead,
                 expectedHash, actualHash, genOf, flips, ioErrs>>
  /\ UNCHANGED otherThanDigest

\* os.Stat(sha256Filename) as it would be if its error were not checked.
SidecarStatIgnored == FALSE

\* os.Stat(sha256Filename) returns an error.
SidecarStatFails == ~sidecar.exists

\* verify: os.Stat(sha256Filename)
StatSidecar ==
  /\ vpc = "statSidecar"
  /\ IF SidecarStatFails
       THEN Return("nosidecar")
       ELSE vpc' = "readSidecar" /\ UNCHANGED <<result, vExit>>
  /\ UNCHANGED <<fname, file, sidecar, mode, runs, readPos, hashState, bytesRead,
                 trackTotal, processed, expectedHash, actualHash, genOf, flips,
                 ioErrs>>
  /\ UNCHANGED otherThanDigest

\* verify: os.ReadFile, TrimSpace, Fields, parts[0]; then tracker.reset and
\* generateSHA256.
ReadSidecar ==
  /\ vpc = "readSidecar"
  /\ IF ~sidecar.exists
       THEN Return("readsidecar") /\ UNCHANGED <<expectedHash, trackTotal, processed>>
       ELSE LET parts == Fields(TrimSpace(sidecar.content))
            IN IF Len(parts) < 1
                 THEN Return("format") /\ UNCHANGED <<expectedHash, trackTotal, processed>>
                 ELSE /\ expectedHash' = parts[1]
                      /\ TrackerReset
                      /\ vpc' = "open"
                      /\ UNCHANGED <<result, vExit>>
  /\ UNCHANGED <<fname, file, sidecar, mode, runs, readPos, hashState, bytesRead,
                 actualHash, genOf, flips, ioErrs>>
  /\ UNCHANGED otherThanDigest

\* generateSHA256: os.Open(filename), sha256.New()
OpenFile ==
  /\ vpc = "open"
  /\ vpc' = "read"
  /\ readPos' = 0
  /\ hashState' = <<>>
  /\ UNCHANGED <<fname, file, sidecar, mode, runs, bytesRead, trackTotal, processed,
                 expectedHash, actualHash, result, vExit, genOf, flips, ioErrs>>
  /\ UNCHANGED otherThanDigest

\* Calls of WaitIfPaused that generateSHA256 makes before a file.Read: its
\* loop calls file.Read, hash.Write and tracker.update and nothing else, and
\* the verifier has no PauseController.
DigestGateCalls == 0

\* hash.Write as it would be if only a full buffer were hashed.
HashWriteFullOnly(h, chunk) == IF Len(chunk) = bufferSize THEN h \o chunk ELSE h

\* hash.Write(buffer[:n])
HashWrite(h, chunk) == h \o chunk

\* generateSHA256, loop: file.Read returned n > 0 and nil.
ReadChunk ==
  /\ vpc = "read" /\ readPos < Len(file.content)
  /\ \E k \in 1..Min(bufferSize, Len(file.content) - readPos) :
       /\ hashState' = HashWrite(hashState, SubSeq(file.content, readPos + 1, readPos + k))
       /\ processed' = processed + k
       /\ readPos' = readPos + k
       /\ bytesRead' = bytesRead + k
  /\ UNCHANGED <<fname, file, sidecar, mode, vpc, runs, trackTotal, expectedHash,
                 actualHash, result, vExit, genOf, flips, ioErrs>>
  /\ UNCHANGED otherThanDigest

\* generateSHA256, loop: file.Read returned 0 and io.EOF; break,
\* tracker.finish(), return the hex string, nil.
ReadEOF ==
  /\ vpc = "read" /\ readPos = Len(file.content)
  /\ actualHash' = Hex(Sum256(hashState))
  /\ vpc' = IF mode = "generate" THEN "writeSidecar" ELSE "compare"
  /\ UNCHANGED <<fname, file, sidecar, mode, runs, readPos, hashState, bytesRead,
                 trackTotal, processed, expectedHash, result, vExit, genOf, flips,
                 ioErrs>>
  /\ UNCHANGED otherThanDigest

\* generate: os.WriteFile(sha256Filename, sha256Content, 0644), return nil
WriteSidecar ==
  /\ vpc = "writeSidecar"
  /\ sidecar' = Sidecar(SidecarLine(actualHash, fname))
  /\ genOf' = file.content
  /\ Return("ok")
  /\ UNCHANGED <<fname, file, mode, runs, readPos, hashState, bytesRead, trackTotal,
                 processed, expectedHash, actualHash, flips, ioErrs>>
  /\ UNCHANGED otherThanDigest

\* verify: actualHash == expectedHash
Compare ==
  /\ vpc = "compare"
  /\ Return(IF actualHash = expectedHash THEN "ok" ELSE "mismatch")
  /\ UNCHANGED <<fname, file, sidecar, mode, runs, readPos, hashState, bytesRead,
                 trackTotal, processed, expectedHash, actualHash, genOf, flips,
                 ioErrs>>
  /\ UNCHANGED otherThanDigest

\* An I/O error as it would end if generate created the sidecar file before
\* it computed the digest: a failed os.Open or file.Read leaves it empty.
IOErrorSidecarCreated ==
  /\ ioErrs < MaxIoErrs
  /\ vpc \in {"readSidecar", "open", "read", "writeSidecar"}
  /\ ioErrs' = ioErrs + 1
  /\ Return(IF vpc = "readSidecar" THEN "readsidecar"
            ELSE IF vpc = "writeSidecar" THEN "write" ELSE "digest")
  /\ sidecar' = IF mode = "generate" /\ vpc \in {"open", "read"}
                  THEN Sidecar(<<>>) ELSE sidecar
  /\ UNCHANGED <<fname, file, mode, runs, readPos, hashState, bytesRead,
                 trackTotal, processed, expectedHash, actualHash, genOf, flips>>
  /\ UNCHANGED otherThanDigest

\* An I/O error where the code checks for one: os.ReadFile of the sidecar,
\* os.Open or file.Read of the file, os.WriteFile of the sidecar.
IOError ==
  /\ ioErrs < MaxIoErrs
  /\ vpc \in {"readSidecar", "open", "read", "writeSidecar"}
  /\ ioErrs' = ioErrs + 1
  /\ Return(IF vpc = "readSidecar" THEN "readsidecar"
            ELSE IF vpc = "writeSidecar" THEN "write" ELSE "digest")
  /\ UNCHANGED <<fname, file, sidecar, mode, runs, readPos, hashState, bytesRead,
                 trackTotal, processed, expectedHash, actualHash, genOf, flips>>
  /\ UNCHANGED otherThanDigest

\* Between two runs one byte of the file is changed.
FlipByte ==
  /\ vpc = "idle" /\ file.kind = "file" /\ flips < MaxFlips
  /\ \E i \in 1..Len(file.content) :
       file' = Regular([file.content EXCEPT ![i] = 1 - @])
  /\ flips' = flips + 1
  /\ UNCHANGED <<fname, sidecar, mode, vpc, runs, readPos, hashState, bytesRead,
                 trackTotal, processed, expectedHash, actualHash, result, vExit,
                 genOf, ioErrs>>
  /\ UNCHANGED otherThanDigest

NextDigest ==
  \/ StartRun \/ StatFile \/ StatSidecar \/ ReadSidecar \/ OpenFile \/ ReadChunk
  \/ ReadEOF \/ WriteSidecar \/ Compare \/ IOError \/ FlipByte

\* ------------------------------------------------------------ pause gate
\* The PauseController as the data path sees it: Toggle flips paused, and
\* WaitIfPaused returns only after it has read paused = 0 under the mutex.

InitGate ==
  /\ gatePaused = FALSE
  /\ gateToggles = 0

\* Toggle, called by the goroutine that reads standard input.
GateToggle ==
  /\ gateToggles < MaxGateToggles
  /\ gatePaused' = ~gatePaused
  /\ gateToggles' = gateToggles + 1
  /\ UNCHANGED otherThanGate

\* WaitIfPaused can return.
GateOpen == ~gatePaused

\* -------------------------------------------------------- ProgressReader

ReadErrs == {"nil", "EOF", "err"}

InitReader ==
  /\ prHas \in [bar : BOOLEAN, speedTracker : BOOLEAN, pauseController : BOOLEAN]
  /\ prPc = "idle"
  /\ prCalls = 0
  /\ prChecks = 0
  /\ rdN = -1
  /\ rdErr = "nil"
  /\ retN = -1
  /\ retErr = "nil"
  /\ prBar = 0
  /\ prTracker = 0

\* A caller enters Read(p).
ReadCall ==
  /\ prPc = "idle" /\ prCalls < MaxReads
  /\ prCalls' = prCalls + 1
  /\ prChecks' = 0
  /\ rdN' = -1 /\ rdErr' = "nil"
  /\ prPc' = "gate"
  /\ UNCHANGED <<prHas, retN, retErr, prBar, prTracker>>
  /\ UNCHANGED otherThanReader

\* if pr.pauseController != nil { pr.pauseController.WaitIfPaused() }
ReadGate ==
  /\ prPc = "gate"
  /\ IF prHas.pauseController
       THEN GateOpen /\ prChecks' = prChecks + 1
       ELSE UNCHANGED prChecks
  /\ prPc' = "read"
  /\ UNCHANGED <<prHas, prCalls, rdN, rdErr, retN, retErr, prBar, prTracker>>
  /\ UNCHANGED otherThanReader

\* n, err = pr.reader.Read(p): any n in 0..len(p) with any err.
ReadWrapped ==
  /\ prPc = "read"
  /\ rdN' \in 0..MaxReadN
  /\ rdErr' \in ReadErrs
  /\ prPc' = "account"
  /\ UNCHANGED <<prHas, prCalls, prChecks, retN, retErr, prBar, prTracker>>
  /\ UNCHANGED otherThanReader

\* The condition as it would be if a read that ended with an error were not
\* counted.
AccountsOnlyWithoutError(n, err) == n > 0 /\ err = "nil"

\* if n > 0
Accounts(n, err) == n > 0

\* bar.Add(n) and speedTracker.Update(int64(n)), for those that are there.
ReadAccount ==
  /\ prPc = "account"
  /\ prBar' = IF Accounts(rdN, rdErr) /\ prHas.bar THEN prBar + rdN ELSE prBar
  /\ prTracker' = IF Accounts(rdN, rdErr) /\ prHas.speedTracker
                    THEN prTracker + rdN ELSE prTracker
  /\ prPc' = "return"
  /\ UNCHANGED <<prHas, prCalls, prChecks, rdN, rdErr, retN, retErr>>
  /\ UNCHANGED otherThanReader

\* return n, err
ReadReturn ==
  /\ prPc = "return"
  /\ retN' = rdN
  /\ retErr' = rdErr
  /\ prPc' = "idle"
  /\ UNCHANGED <<prHas, prCalls, prChecks, rdN, rdErr, prBar, prTracker>>
  /\ UNCHANGED otherThanReader

NextReader ==
  \/ ReadCall \/ ReadGate \/ ReadWrapped \/ ReadAccount \/ ReadReturn \/ GateToggle

\* ------------------------------- addFiles: the instrumented Walk callback
\* The write phase with bar, speedTracker and pauseController non-nil, step
\* by step: what the data path does between two calls of WaitIfPaused.

\* The entries of a walk, directories and regular files in any order.
Walks == SeqsUpTo({DirNode} \cup {FileNode(k) : k \in 0..MaxFileSize}, MaxNodes)

\* Byte b of entry e; b = 0 stands for the entry's header.
At(e, b) == [e |-> e, b |-> b]

InitCopy ==
  /\ cpEntries \in Walks
  /\ cpIdx = 1
  /\ cpPc = "entryGate"
  /\ cpOff = 0
  /\ cpChunk = <<>>
  /\ cpOut = <<>>
  /\ cpBar = 0
  /\ cpTracker = 0
  /\ cpGateCalls = 0
  /\ cpReads = 0

\* Walk has no entry left: addFiles returns.
WalkEnd ==
  /\ cpPc = "entryGate" /\ cpIdx > Len(cpEntries)
  /\ cpPc' = "done"
  /\ UNCHANGED <<cpEntries, cpIdx, cpOff, cpChunk, cpOut, cpBar, cpTracker,
                 cpGateCalls, cpReads>>
  /\ UNCHANGED otherThanCopy

\* The callback's first statement: pauseController.WaitIfPaused() returns.
EntryGate ==
  /\ cpPc = "entryGate" /\ cpIdx <= Len(cpEntries)
  /\ GateOpen
  /\ cpGateCalls' = cpGateCalls + 1
  /\ cpPc' = "header"
  /\ UNCHANGED <<cpEntries, cpIdx, cpOff, cpChunk, cpOut, cpBar, cpTracker, cpReads>>
  /\ UNCHANGED otherThanCopy

\* FileInfoHeader, Rel, w.CreateHeader; a directory is done with that, a file
\* is opened.
EntryHeader ==
  /\ cpPc = "header"
  /\ cpOut' = Append(cpOut, At(cpIdx, 0))
  /\ IF cpEntries[cpIdx].kind = "dir"
       THEN cpIdx' = cpIdx + 1 /\ cpPc' = "entryGate"
       ELSE cpPc' = "chunkGate" /\ UNCHANGED cpIdx
  /\ cpOff' = 0
  /\ UNCHANGED <<cpEntries, cpChunk, cpBar, cpTracker, cpGateCalls, cpReads>>
  /\ UNCHANGED otherThanCopy

\* The copy loop's first statement: pauseController.WaitIfPaused() returns.
ChunkGate ==
  /\ cpPc = "chunkGate"
  /\ GateOpen
  /\ cpGateCalls' = cpGateCalls + 1
  /\ cpPc' = "read"
  /\ UNCHANGED <<cpEntries, cpIdx, cpOff, cpChunk, cpOut, cpBar, cpTracker, cpReads>>
  /\ UNCHANGED otherThanCopy

\* n, err := file.Read(copyBuffer): n > 0 bytes, or 0 and io.EOF at the end
\* of the file, which ends the callback.
ChunkRead ==
  /\ cpPc = "read"
  /\ cpReads' = cpReads + 1
  /\ LET left == cpEntries[cpIdx].content - cpOff
     IN IF left = 0
          THEN /\ cpIdx' = cpIdx + 1
               /\ cpPc' = "entryGate"
               /\ UNCHANGED <<cpOff, cpChunk>>
          ELSE /\ \E k \in 1..Min(copyBufferSize, left) :
                    /\ cpChunk' = [j \in 1..k |-> At(cpIdx, cpOff + j)]
                    /\ cpOff' = cpOff + k
               /\ cpPc' = "write"
               /\ UNCHANGED cpIdx
  /\ UNCHANGED <<cpEntries, cpOut, cpBar, cpTracker, cpGateCalls>>
  /\ UNCHANGED otherThanCopy

\* writer.Write(copyBuffer[:n])
ChunkWrite ==
  /\ cpPc = "write"
  /\ cpOut' = cpOut \o cpChunk
  /\ cpPc' = "account"
  /\ UNCHANGED <<cpEntries, cpIdx, cpOff, cpChunk, cpBar, cpTracker, cpGateCalls,
                 cpReads>>
  /\ UNCHANGED otherThanCopy

\* The loop as it would be with WaitIfPaused in front of it, not inside.
NextIterationUngated == "read"

\* After the accounting the loop starts over, with WaitIfPaused.
NextIteration == "chunkGate"

\* bar.Add(n); speedTracker.Update(int64(n)); the buffer is free again.
ChunkAccount ==
  /\ cpPc = "account"
  /\ cpBar' = cpBar + Len(cpChunk)
  /\ cpTracker' = cpTracker + Len(cpChunk)
  /\ cpChunk' = <<>>
  /\ cpPc' = NextIteration
  /\ UNCHANGED <<cpEntries, cpIdx, cpOff, cpOut, cpGateCalls, cpReads>>
  /\ UNCHANGED otherThanCopy

NextCopy ==
  \/ WalkEnd \/ EntryGate \/ EntryHeader \/ ChunkGate \/ ChunkRead \/ ChunkWrite
  \/ ChunkAccount \/ GateToggle

\* ------------------------------------------------------------ SpeedTracker
\* Time is counted in ticks of which SampleInterval make 500 ms; a speed is
\* a quotient of bytes by ticks, kept in lowest terms so that equal
\* quotients are equal values.

RECURSIVE GCD(_, _)
GCD(a, b) == IF b = 0 THEN a ELSE GCD(b, a % b)

\* float64(bytes) / elapsed
Quotient(bytes, elapsed) ==
  LET g == GCD(bytes, elapsed)
  IN [num |-> bytes \div g, den |-> elapsed \div g]

ZeroSpeed == [num |-> 0, den |-> 1]

\* NewSpeedTracker(): lastTime is time.Now(), everything else zero.
InitSpeed ==
  /\ clock = 0
  /\ totalBytes = 0
  /\ lastBytes = 0
  /\ lastTime = 0
  /\ currentSpeed = ZeroSpeed
  /\ updBytes = 0
  /\ updates = 0

\* Time passes between two calls.
Tick ==
  /\ clock < MaxClock
  /\ clock' = clock + 1
  /\ UNCHANGED <<totalBytes, lastBytes, lastTime, currentSpeed, updBytes, updates>>
  /\ UNCHANGED otherThanSpeed

\* The sampling condition as it would be without the interval.
SampleDueAlways(now) == TRUE

\* now.Sub(st.lastTime) >= 500*time.Millisecond
SampleDue(now) == now - lastTime >= SampleInterval

\* st.Update(bytes), under st.mu from the first statement to the return.
Update ==
  /\ updates < MaxUpdates
  /\ \E bytes \in 1..MaxUpdateBytes :
       LET now == clock
           elapsed == now - lastTime
       IN /\ updBytes' = bytes
          /\ totalBytes' = totalBytes + bytes
          /\ IF SampleDue(now)
               THEN /\ currentSpeed' = IF elapsed > 0
                                         THEN Quotient(totalBytes' - lastBytes, elapsed)
                                         ELSE currentSpeed
                    /\ lastBytes' = totalBytes'
                    /\ lastTime' = now
               ELSE UNCHANGED <<currentSpeed, lastBytes, lastTime>>
  /\ updates' = updates + 1
  /\ UNCHANGED clock
  /\ UNCHANGED otherThanSpeed

NextSpeed == Tick \/ Update

\* ----------------------------------------------------- archiver: shutdown
\* main with a destination file, from the write phase on: the archive
\* writer's output goes through bufferedFile (the BufferedWriter above) into
\* the file; main's deferred calls run when it returns, last deferred first,
\* and not at all after log.Fatalf.

\* defer file.Close(), then defer func() { zipWriter.Close();
\* bufferedFile.Flush() }(), in the order of the statements.
DeferStatements == <<"file.Close", "zipWriter.Close; bufferedFile.Flush">>

\* After os.Create, NewBufferedWriter, zip.NewWriter and the two defers.
InitShutdown ==
  /\ shPc = "write"
  /\ deferred = DeferStatements
  /\ fileOpen = TRUE
  /\ shutLog = <<>>
  /\ shExit = -1

\* The last Write of the write phase returned an error.
WriteFailed == bwRet.op = "Write" /\ bwRet.err # "nil"

\* Write phase: the archive writer passes bytes to bufferedFile.Write.
AddFilesWrite == shPc = "write" /\ ~WriteFailed /\ WriteCall

\* The steps of a call of bufferedFile.Write, in the write phase or in
\* zipWriter.Close().
ShutWriteFlushIter == shPc \in {"write", "closing"} /\ WriteFlushIter
ShutWriteCopyIter == shPc \in {"write", "closing"} /\ WriteCopyIter
ShutWriteReturn == shPc \in {"write", "closing"} /\ WriteReturn

\* addFiles returns the error: done <- true and log.Fatalf, which exits
\* with 1 without running the deferred calls.
AddFilesFails ==
  /\ shPc = "write" /\ bwPc = "idle" /\ WriteFailed
  /\ shPc' = "fatal"
  /\ shExit' = 1
  /\ UNCHANGED <<deferred, fileOpen, shutLog>>
  /\ UNCHANGED bwVars
  /\ UNCHANGED otherThanShutdown

\* addFiles has returned nil: done <- true, the completion message, and main
\* returns.
MainReturns ==
  /\ shPc = "write" /\ bwPc = "idle" /\ ~WriteFailed
  /\ shPc' = "return"
  /\ UNCHANGED <<deferred, fileOpen, shutLog, shExit>>
  /\ UNCHANGED bwVars
  /\ UNCHANGED otherThanShutdown

\* The deferred call that runs next: the one deferred last.
NextDeferred == deferred[Len(deferred)]

\* The deferred func starts: zipWriter.Close() writes the index into
\* bufferedFile.
CodecCloseCall ==
  /\ shPc = "return" /\ deferred # <<>>
  /\ NextDeferred = "zipWriter.Close; bufferedFile.Flush"
  /\ deferred' = SubSeq(deferred, 1, Len(deferred) - 1)
  /\ \E index \in SeqsUpTo(Byte, MaxIndex) \ {<<>>} :
       /\ wP' = index
       /\ remaining' = Len(index)
       /\ passed' = passed \o index
  /\ srcOffset' = 0
  /\ bwPc' = "loop"
  /\ shPc' = "closing"
  /\ UNCHANGED <<fileOpen, shutLog, shExit>>
  /\ UNCHANGED <<bwCap, buffer, offset, sink, sinkLog, bwRet, sinkErrs, sinkRet,
                 copied>>
  /\ UNCHANGED otherThanShutdown

\* zipWriter.Close() returns; its error is dropped.
CodecCloseReturn ==
  /\ shPc = "closing" /\ bwPc = "idle"
  /\ shPc' = "flush"
  /\ shutLog' = Append(shutLog, "finalize")
  /\ UNCHANGED <<deferred, fileOpen, shExit>>
  /\ UNCHANGED bwVars
  /\ UNCHANGED otherThanShutdown

\* bufferedFile.Flush() in the deferred func; its error is dropped.
FinalFlush ==
  /\ shPc = "flush"
  /\ \E o \in SinkOutcomes(offset) :
       /\ Flush(o[1], o[2], "Flush")
       /\ bwRet' = [op |-> "Flush", n |-> 0, err |-> FlushErr(o[1])]
  /\ shPc' = "return"
  /\ shutLog' = Append(shutLog, "flush")
  /\ UNCHANGED <<deferred, fileOpen, shExit>>
  /\ UNCHANGED <<bwCap, buffer, passed, bwPc, wP, remaining, srcOffset, copied>>
  /\ UNCHANGED otherThanShutdown

\* The deferred file.Close().
FileClose ==
  /\ shPc = "return" /\ deferred # <<>>
  /\ NextDeferred = "file.Close"
  /\ deferred' = SubSeq(deferred, 1, Len(deferred) - 1)
  /\ fileOpen' = FALSE
  /\ shutLog' = Append(shutLog, "close")
  /\ UNCHANGED <<shPc, shExit>>
  /\ UNCHANGED bwVars
  /\ UNCHANGED otherThanShutdown

\* No deferred call is left: the process exits with 0.
ProcessExit ==
  /\ shPc = "return" /\ deferred = <<>>
  /\ shPc' = "exited"
  /\ shExit' = 0
  /\ UNCHANGED <<deferred, fileOpen, shutLog>>
  /\ UNCHANGED bwVars
  /\ UNCHANGED otherThanShutdown

NextShutdown ==
  \/ AddFilesWrite \/ ShutWriteFlushIter \/ ShutWriteCopyIter \/ ShutWriteReturn
  \/ AddFilesFails \/ MainReturns \/ CodecCloseCall \/ CodecCloseReturn
  \/ FinalFlush \/ FileClose \/ ProcessExit

\* ------------------------------------------------------- specifications

\* A machine nobody runs: what the other machines' runs hold in its variables.
IdleBW == InitBW /\ bwCap = 1
IdleArch ==
  /\ InitArch
  /\ variant = "single" /\ dest = NoDest /\ sources = <<Source(SrcArg, MissingRoot)>>

IdleDigest == InitDigest /\ fname = <<"f">> /\ file = NoFile /\ sidecar = NoSidecar

IdleReader ==
  InitReader /\ prHas = [bar |-> TRUE, speedTracker |-> TRUE, pauseController |-> TRUE]

\* What the machines a specification does not run start as, and stay.
IdleCopy == InitCopy /\ cpEntries = <<>>

IdleSpeed == InitSpeed

IdleShutdown == InitShutdown

IdleStreams == InitGate /\ IdleReader /\ IdleCopy /\ IdleSpeed /\ IdleShutdown

InitSpecBW == InitBW /\ InitPause /\ IdleArch /\ IdleDigest /\ IdleStreams

SpecBW == InitSpecBW /\ [][NextBW]_vars

InitSpecPause == IdleBW /\ InitPause /\ IdleArch /\ IdleDigest /\ IdleStreams

InitSpecArch == IdleBW /\ InitPause /\ InitArch /\ IdleDigest /\ IdleStreams

InitSpecDigest == IdleBW /\ InitPause /\ IdleArch /\ InitDigest /\ IdleStreams

SpecDigest == InitSpecDigest /\ [][NextDigest]_vars

InitSpecReader ==
  /\ IdleBW /\ InitPause /\ IdleArch /\ IdleDigest /\ InitGate /\ InitReader /\ IdleCopy
  /\ IdleSpeed /\ IdleShutdown

InitSpecCopy ==
  /\ IdleBW /\ InitPause /\ IdleArch /\ IdleDigest /\ InitGate /\ IdleReader /\ InitCopy
  /\ IdleSpeed /\ IdleShutdown

InitSpecSpeed ==
  /\ IdleBW /\ InitPause /\ IdleArch /\ IdleDigest /\ InitGate /\ IdleReader /\ IdleCopy
  /\ InitSpeed /\ IdleShutdown

SpecSpeed == InitSpecSpeed /\ [][NextSpeed]_vars

InitSpecShutdown ==
  /\ InitBW /\ InitPause /\ IdleArch /\ IdleDigest /\ InitGate /\ IdleReader /\ IdleCopy
  /\ IdleSpeed /\ InitShutdown

SpecShutdown == InitSpecShutdown /\ [][NextShutdown]_vars

SpecCopy == InitSpecCopy /\ [][NextCopy]_vars

SpecReader == InitSpecReader /\ [][NextReader]_vars

SpecArch == InitSpecArch /\ [][NextArch]_vars

SpecPause == InitSpecPause /\ [][NextPause]_vars

\* A goroutine that can run is eventually run (the Go scheduler), so every
\* step is weakly fair except ToggleLock, which needs a line on stdin.
SpecPauseFair ==
  /\ SpecPause
  /\ \A t \in Togglers : WF_vars(TogglerStep(t))
  /\ \A w \in Waiters : WF_vars(WaiterStep(w))

\* ------------------------------------------------- BufferedWriter: claims

IsPrefix(s, t) == Len(s) <= Len(t) /\ SubSeq(t, 1, Len(s)) = s

\* The bytes of p that Write has copied so far, after all earlier calls' bytes.
Consumed == SubSeq(passed, 1, Len(passed) - remaining)

Reassembled ==
  sinkErrs = 0 =>
    /\ sink \o SubSeq(buffer, 1, offset) = Consumed
    /\ (bwPc = "idle" /\ bwRet.op = "Flush") => sink = passed

\* C1: with a sink that never fails, in every reachable state the bytes handed
\* to the sink followed by buffer[0..offset) are exactly the bytes of all Write
\* arguments copied so far, in order; the sink only ever grows at its end; and
\* right after a Flush the sink holds the whole input.
C1_Reassembly == [](Reassembled) /\ [][IsPrefix(sink, sink')]_vars

\* A run without sink error in which a Write crossed the buffer boundary (the
\* sink was written by Write itself) and a final Flush emitted a short rest.
C1_Witness ==
  /\ sinkErrs = 0 /\ bwPc = "idle" /\ bwRet.op = "Flush"
  /\ Len(passed) = MaxTotal /\ sink = passed
  /\ \E i, j \in 1..Len(passed) : passed[i] # passed[j]
  /\ \E i \in 1..Len(sinkLog) : sinkLog[i].by = "Write"
  /\ sinkLog[Len(sinkLog)].by = "Flush"
  /\ Len(sinkLog[Len(sinkLog)].data) < bwCap
\* ------------------------------------------------ PauseController: claims

\* w has called WaitIfPaused and the call has not returned.
InWaitIfPaused(w) == wpc[w] \in {"call", "check", "waiting", "woken", "unlock"}

ParkedOnlyWhilePaused ==
  \A w \in Waiters :
    (wpc[w] = "waiting" /\ paused = 0) => \E t \in Togglers : tpc[t] = "broadcast"

\* C2: no missed wakeup. A caller is parked on the condition variable with the
\* gate resumed only inside the resuming Toggle, before its Broadcast; and if
\* the gate ends resumed and stays resumed, every call of WaitIfPaused returns.
C2_NoMissedWakeup ==
  /\ []ParkedOnlyWhilePaused
  /\ (<>[](paused = 0)) =>
       \A w \in Waiters : [](InWaitIfPaused(w) => <>(wpc[w] \in {"io", "done"}))

\* A caller that parked twice (pause, resume, pause again before it could look,
\* resume) and has returned, with the gate resumed after the last toggle.
C2_Witness ==
  \E w \in Waiters :
    parks[w] >= 2 /\ wpc[w] \in {"io", "done"} /\ paused = 0 /\ completed = MaxToggles

ReturnsResumed ==
  \A w \in Waiters : wpc[w] = "unlock" => (paused = 0 /\ mu = w)

\* C3: WaitIfPaused leaves its loop only having read paused = 0 under the
\* mutex; with the gate resumed at the test it goes on without parking; and a
\* parked caller stays parked, transferring nothing, while the gate stays
\* paused.
C3_ReturnsOnlyResumed ==
  /\ []ReturnsResumed
  /\ [][\A w \in Waiters :
          (wpc[w] = "check" /\ paused = 0 /\ wpc'[w] # "check")
            => (wpc'[w] = "unlock" /\ parks'[w] = parks[w])]_vars
  /\ [][\A w \in Waiters :
          (wpc[w] = "waiting" /\ paused = 1 /\ paused' = 1)
            => (wpc'[w] = "waiting" /\ ioDone'[w] = ioDone[w])]_vars
  /\ [][\A w \in Waiters :
          ioDone'[w] # ioDone[w] => ~InWaitIfPaused(w)]_vars

\* A caller about to return from a call in which it had parked, after a
\* resume that was followed by nothing that paused the gate again.
C3_Witness ==
  \E w \in Waiters : wpc[w] = "unlock" /\ parks[w] >= 1 /\ completed >= 2

\* Toggle calls that have stored their new value.
Flipped ==
  completed + Cardinality({t \in Togglers : tpc[t] \in {"broadcast", "unlock"}})

\* C4: starting resumed, the gate is paused iff an odd number of Toggle calls
\* have taken effect, whichever callers made them and whatever the data path
\* does; with no Toggle in flight that number is the number of completed calls.
C4_ToggleParity == paused = Flipped % 2

\* Three completed toggles by concurrent callers, a data-path caller parked.
C4_Witness ==
  /\ completed = 3 /\ paused = 1
  /\ \A t \in Togglers : tpc[t] = "idle"
  /\ \E w \in Waiters : wpc[w] = "waiting"
  /\ \E w \in Waiters : ioDone[w] > 0
\* ------------------------------------------------------- archiver: claims

RECURSIVE DataBytes(_)
DataBytes(log) ==
  IF log = <<>> THEN 0
  ELSE (IF Head(log).op = "data" THEN Head(log).n ELSE 0) + DataBytes(Tail(log))

CompletedFileRun == apc = "exited" /\ exitCode = 0 /\ Instrumented

\* C5: in a run with a destination that completes without error, the scan
\* phase's total equals the bytes written into archive entries and the bytes
\* added to the progress accounting.
C5_ScanEqualsWritten ==
  CompletedFileRun =>
    (totalSize = DataBytes(archive) /\ barCount = totalSize /\ stTotal = totalSize)

Key(e) == [src |-> e.src, path |-> e.path]

Headers == SelectSeq(archive, LAMBDA e : e.op = "hdr")
HeaderKeys == [i \in DOMAIN Headers |-> Key(Headers[i])]

\* Every entry of every source tree.
AllEntries ==
  {[src |-> i, path |-> q] : i \in DOMAIN sources, q \in TreePaths}
  \cap {k \in [src : DOMAIN sources, path : TreePaths] :
          Exists(sources[k.src].tree, k.path)}

\* In a visit order: no entry twice, and every entry after its directory.
WellOrdered(keys) ==
  /\ \A i, j \in DOMAIN keys : i # j => keys[i] # keys[j]
  /\ \A i \in DOMAIN keys :
       keys[i].path # Root =>
         \E j \in 1..(i - 1) :
           /\ keys[j] = [src |-> keys[i].src, path |-> Parent(keys[i].path)]
           /\ sources[keys[j].src].tree[keys[j].path].kind = "dir"

\* The payload the codec got for the entry whose header is archive[j].
RECURSIVE PayloadFrom(_)
PayloadFrom(j) ==
  IF j + 1 \in DOMAIN archive /\ archive[j + 1].op = "data"
    THEN archive[j + 1].n + PayloadFrom(j + 1) ELSE 0

\* Each data record belongs to the header before it; once another header (or
\* the index) follows, the entry has its whole payload.
PayloadInPlace ==
  \A i \in DOMAIN archive :
    /\ archive[i].op = "data" =>
         /\ i > 1
         /\ archive[i - 1].op \in {"hdr", "data"}
         /\ Key(archive[i - 1]) = Key(archive[i])
         /\ ~archive[i - 1].dir
    /\ (archive[i].op = "hdr" /\ i + 1 \in DOMAIN archive
          /\ archive[i + 1].op # "data") =>
         (PayloadFrom(i) = 0 /\
          (exitCode # 1 =>
             sources[archive[i].src].tree[archive[i].path].content = 0))
    /\ (archive[i].op = "hdr" /\ i + 1 \in DOMAIN archive
          /\ archive[i + 1].op = "data"
          /\ \E j \in (i + 1)..Len(archive) : archive[j].op # "data") =>
         PayloadFrom(i) = sources[archive[i].src].tree[archive[i].path].content

\* C6: the write phase emits the entries in the order the scan phase visited
\* them, directories before their descendants, each entry once, each entry's
\* header before its payload and its whole payload before the next header.
C6_SameOrderOnce ==
  /\ WellOrdered(scanned)
  /\ WellOrdered(HeaderKeys)
  /\ Instrumented => IsPrefix(HeaderKeys, scanned)
  /\ CompletedFileRun =>
       (HeaderKeys = scanned /\ {scanned[i] : i \in DOMAIN scanned} = AllEntries)
  /\ PayloadInPlace

\* A completed batch run over two sources, with a directory holding an entry
\* and a file with payload in more than one chunk.
C6_Witness ==
  /\ CompletedFileRun /\ variant = "batch"
  /\ Len(scanned) = MaxNodes
  /\ \E i \in DOMAIN scanned : Len(scanned[i].path) = 1 /\ scanned[i].src = 2
  /\ \E i \in DOMAIN archive :
       archive[i].op = "data" /\ archive[i - 1].op = "data"

\* The destination is below the source root: component by component.
LiesInside(d, a) ==
  /\ Len(AbsComps(a)) < Len(AbsComps(d))
  /\ SubSeq(AbsComps(d), 1, Len(AbsComps(a))) = AbsComps(a)

DestInsideSource ==
  dest # NoDest /\ \E i \in DOMAIN sources : LiesInside(dest, sources[i].arg)

\* C7: with the destination inside a source root the run does nothing but end
\* in the self-inclusion error: nothing is scanned, the destination is not
\* created or truncated, nothing is written.
C7_SelfInclusionRejected ==
  DestInsideSource =>
    /\ apc \in {"start", "exited"}
    /\ apc = "exited" => (exitErr = "selfinclusion" /\ exitCode = 1)
    /\ scanned = <<>> /\ totalFiles = 0 /\ ~destCreated /\ archive = <<>>
    /\ fsErrs = 0

\* A batch run rejected for its second source only, the destination given
\* relative to the working directory.
C7_Witness ==
  /\ apc = "exited" /\ exitErr = "selfinclusion" /\ variant = "batch"
  /\ ~dest.abs
  /\ LiesInside(dest, sources[2].arg)
  /\ ~HasPrefix(Abs(dest), Abs(sources[1].arg))

\* ------------------------------------------------- verifier: claims C8-C10

\* The run in progress returns to main in this step.
Returns == vpc # "idle" /\ vpc' = "idle"

\* The sidecar in place was written by a generate run, and the file holds
\* what that run digested.
Unmodified == genOf # NoGen /\ file = Regular(genOf)

\* C8: when the file holds what generate digested, a verify run on the same
\* path succeeds: the first whitespace-delimited token of the sidecar that
\* generate wrote equals the digest string verify recomputes, and the run
\* returns nil (an I/O error delivered to the run is the only other return).
C8_TokenMatches ==
  (mode = "verify" /\ vpc = "compare" /\ Unmodified)
    => /\ Fields(sidecar.content)[1] = actualHash
       /\ expectedHash = actualHash

C8_RoundTrip ==
  /\ [](C8_TokenMatches)
  /\ [][(mode = "verify" /\ Unmodified /\ Returns)
          => \/ result' = "ok" /\ vExit' = 0
             \/ ioErrs' > ioErrs]_vars

C8_Witness ==
  /\ mode = "verify" /\ vpc = "idle" /\ result = "ok"
  /\ Unmodified
  /\ Len(file.content) > bufferSize
  /\ fname = <<" ", "f">>

\* a and b have the same length and differ at exactly one position.
OneByteApart(a, b) ==
  /\ Len(a) = Len(b)
  /\ Cardinality({i \in 1..Len(a) : a[i] # b[i]}) = 1

SingleByteChanged ==
  genOf # NoGen /\ file.kind = "file" /\ OneByteApart(genOf, file.content)

\* C9: when the file differs in a single byte from what generate digested,
\* the digest verify recomputes differs from the one in the sidecar, and the
\* verify run never returns nil: it returns the digest-mismatch error (or
\* the I/O error delivered to it), and the process exits with 1.
C9_DigestDiffers ==
  (mode = "verify" /\ vpc = "compare" /\ SingleByteChanged)
    => actualHash # expectedHash

C9_SingleByteMismatch ==
  /\ [](C9_DigestDiffers)
  /\ [][(mode = "verify" /\ SingleByteChanged /\ Returns)
          => /\ result' # "ok"
             /\ vExit' = 1
             /\ result' = "mismatch" \/ ioErrs' > ioErrs]_vars

C9_Witness ==
  /\ mode = "verify" /\ vpc = "idle" /\ result = "mismatch" /\ vExit = 1
  /\ flips = 1
  /\ SingleByteChanged
  /\ Len(file.content) > bufferSize

\* C10: a verify run on an existing regular file without a sidecar returns
\* the sidecar-not-found error, which is not the digest-mismatch error, the
\* process exits with 1, and no byte of the file is read or hashed.
C10_MissingSidecar ==
  (mode = "verify" /\ file.kind = "file" /\ ~sidecar.exists)
    => /\ bytesRead = 0 /\ readPos = 0 /\ hashState = <<>>
       /\ vpc \in {"stat", "statSidecar", "idle"}
       /\ vpc = "idle" => /\ result = "nosidecar"
                          /\ result # "mismatch"
                          /\ vExit = 1

C10_Witness ==
  /\ mode = "verify" /\ vpc = "idle"
  /\ file.kind = "file" /\ Len(file.content) > 0
  /\ ~sidecar.exists
  /\ result = "nosidecar" /\ vExit = 1


\* ------------------------------------------------------ verifier: claim C11

\* The sidecar holds no character other than whitespace.
Blank(content) == \A i \in 1..Len(content) : content[i] \in Whitespace

\* C11: a verify run on a regular file whose sidecar exists and holds no
\* whitespace-delimited token returns the format error, never the
\* digest-mismatch error, exits with 1, and returns before the file is opened
\* or any byte of it is hashed (an I/O error reading the sidecar is the only
\* other return).
C11_BlankSidecarFormatError ==
  (mode = "verify" /\ file.kind = "file" /\ sidecar.exists /\ Blank(sidecar.content))
    => /\ bytesRead = 0 /\ readPos = 0 /\ hashState = <<>> /\ actualHash = <<>>
       /\ vpc \in {"stat", "statSidecar", "readSidecar", "idle"}
       /\ vpc = "idle" => /\ result # "mismatch" /\ result # "ok"
                          /\ vExit = 1
                          /\ \/ result = "format"
                             \/ result = "readsidecar" /\ ioErrs > 0

C11_Witness ==
  /\ mode = "verify" /\ vpc = "idle"
  /\ file.kind = "file" /\ Len(file.content) > 0
  /\ sidecar = Sidecar(<<" ", "\n">>)
  /\ result = "format" /\ vExit = 1


\* ------------------------------------------------ archiver: claims C12, C13

\* An error was delivered to the run, or the run found a source missing.
ErrorOccurred == fsErrs > 0 \/ exitErr # "none"

\* C12: a run of the archiver in which an error occurred, a failed sink
\* write in the codec's finalization or in the final flush included, ends
\* with an error message and exit code 1, never reporting completion.
C12_ErrorsSurfaced ==
  (apc = "exited" /\ ErrorOccurred) => (exitCode = 1 /\ exitErr # "none")

\* Every error before main returns is surfaced: the one exception to C12 is
\* an error in the deferred calls.
SurfacedBeforeReturn ==
  (apc \notin {"finish", "exited"} \/ exitCode # 0) =>
    (ErrorOccurred => apc = "exited" /\ exitCode = 1 /\ exitErr # "none")

\* An error is met in this step, in the scan phase or the write phase.
ErrorStep == apc # "finish" /\ (fsErrs' > fsErrs \/ exitErr' # exitErr)

\* What an aborted run leaves: nothing of a later source, no index, for an
\* error before the write phase an empty archive, and for an error in the
\* scan phase (or the guard) no destination file.
AbortedEarly ==
  (apc = "exited" /\ exitCode = 1) =>
    /\ \A i \in DOMAIN archive : archive[i].op # "index" /\ archive[i].src <= srcIdx
    /\ exitErr = "scan" => \A i \in DOMAIN scanned : scanned[i].src <= srcIdx
    /\ exitErr \in {"selfinclusion", "scan", "create"} => archive = <<>>
    /\ exitErr \in {"selfinclusion", "scan"} => ~destCreated

\* C13: a filesystem error in the scan phase or the write phase ends the run
\* in the step that meets it, with exit code 1; once the process has exited
\* no entry is emitted, nothing is written and no further source is taken up;
\* a scan-phase error leaves no destination file; and a destination file
\* once created is never removed.
C13_FailFast ==
  /\ [](AbortedEarly)
  /\ [][ErrorStep => (apc' = "exited" /\ exitCode' = 1)]_vars
  /\ [][apc = "exited" => UNCHANGED <<archive, scanned, srcIdx, destCreated>>]_vars
  /\ [][destCreated => destCreated']_vars

C13_Witness ==
  /\ apc = "exited" /\ exitCode = 1 /\ exitErr = "write" /\ fsErrs = 1
  /\ variant = "batch" /\ srcIdx = 1
  /\ sources[2].tree[Root].kind # "none"
  /\ destCreated
  /\ Len(archive) > 1

\* ------------------------------------------------ ProgressReader: claim C14

\* Between the wrapped read and the return Read needs nothing from the gate:
\* its next step can be taken, paused or not.
NoGateAfterRead ==
  /\ prPc = "account" => ENABLED ReadAccount
  /\ prPc = "return" => ENABLED ReadReturn

\* The wrapped reader is called, and Read goes on, after exactly one call of
\* WaitIfPaused (none without a pause controller).
GateBeforeRead ==
  prPc \in {"read", "account", "return"} =>
    prChecks = (IF prHas.pauseController THEN 1 ELSE 0)

\* C14: Read calls WaitIfPaused once, before the wrapped reader, and never
\* after it; when the wrapped read returned n > 0, with nil, EOF or any other
\* error, the bar and the speed tracker that are there have grown by exactly
\* n when Read returns, and by nothing otherwise; Read returns the wrapped
\* reader's n and err.
C14_ReadContract ==
  /\ [](GateBeforeRead /\ NoGateAfterRead)
  /\ [][(prPc = "read" /\ prPc' # "read") =>
          (prHas.pauseController => prChecks = 1)]_vars
  /\ [][(prPc = "account" /\ prPc' = "return") =>
          /\ prHas.bar => prBar' = prBar + rdN
          /\ prHas.speedTracker => prTracker' = prTracker + rdN
          /\ prChecks' = prChecks]_vars
  /\ [][prPc # "account" => UNCHANGED <<prBar, prTracker>>]_vars
  /\ [][(prPc = "return" /\ prPc' = "idle") =>
          (retN' = rdN /\ retErr' = rdErr /\ prChecks' = prChecks)]_vars

C14_Witness ==
  /\ prHas = [bar |-> TRUE, speedTracker |-> TRUE, pauseController |-> TRUE]
  /\ prPc = "idle" /\ prCalls = 1
  /\ retN = MaxReadN /\ retErr = "EOF"
  /\ prBar = MaxReadN /\ prTracker = MaxReadN
  /\ gatePaused

\* ------------------------------------------ BufferedWriter: claims C15, C16

\* A call of Flush by the owner of the writer, from entry to return.
FlushStep == bwPc = "idle" /\ bwPc' = "idle" /\ bwRet'.op = "Flush"

\* A call of Flush made by Write.
FlushInWrite == bwPc = "loop" /\ remaining > 0 /\ offset = bwCap

\* This step issues one sink write, of buffer[0..offset), and empties the
\* buffer.
EmitsBuffered ==
  /\ Len(sinkLog') = Len(sinkLog) + 1
  /\ SubSeq(sinkLog', 1, Len(sinkLog)) = sinkLog
  /\ sinkLog'[Len(sinkLog')].data = SubSeq(buffer, 1, offset)
  /\ offset' = 0

\* C15: Flush with offset = 0 returns nil and does not call the sink; Flush
\* with offset = k > 0 calls the sink exactly once, with buffer[0..k), and
\* leaves offset = 0, whether it is called by the owner or by Write.
C15_FlushContract ==
  /\ [][FlushStep =>
          IF offset = 0
            THEN /\ sinkLog' = sinkLog /\ sink' = sink
                 /\ bwRet'.err = "nil"
                 /\ offset' = 0
            ELSE EmitsBuffered]_vars
  /\ [][FlushInWrite => EmitsBuffered]_vars

C15_Witness ==
  /\ bwPc = "idle" /\ bwRet = [op |-> "Flush", n |-> 0, err |-> "nil"]
  /\ bwCap = MaxCap
  /\ Len(sinkLog) = 1 /\ sinkLog[1].by = "Flush"
  /\ Len(sinkLog[1].data) = 2 /\ sinkLog[1].data = passed
  /\ offset = 0

\* The sink returns an error in this step.
SinkFails == sinkLog' # sinkLog /\ sinkRet' # "nil"

\* C16: when the sink returns an error to a flush, the call in progress
\* returns in that step with that error value: Flush to its caller, and the
\* Write that called Flush with n - remaining and without copying anything
\* more; no step, so no Flush, issues more than one sink write, and the
\* failed bytes are not kept for another attempt (offset is 0).
C16_SinkErrorPropagated ==
  /\ [][SinkFails =>
          /\ bwPc' = "idle"
          /\ bwRet'.err = sinkRet'
          /\ bwRet'.op = (IF bwPc = "loop" THEN "Write" ELSE "Flush")
          /\ bwPc = "loop" =>
               /\ bwRet'.n = Len(wP) - remaining
               /\ UNCHANGED <<buffer, remaining, srcOffset>>
          /\ offset' = 0]_vars
  /\ [][Len(sinkLog') <= Len(sinkLog) + 1]_vars

C16_Witness ==
  /\ bwPc = "idle" /\ bwRet.op = "Write" /\ bwRet.err = "EIO"
  /\ sinkRet = "EIO"
  /\ 0 < bwRet.n /\ bwRet.n < Len(wP)
  /\ remaining > 0 /\ offset = 0
  /\ Len(sinkLog) = 2 /\ sinkLog[1].ok /\ ~sinkLog[2].ok

\* ------------------------------------------------ archiver: claims C17, C18

\* The entries a reader of the archive finds, in order: for each header its
\* path, whether it is a directory, and the bytes of payload after it.
RECURSIVE Entries(_)
Entries(log) ==
  IF log = <<>> THEN <<>>
  ELSE LET init == Entries(SubSeq(log, 1, Len(log) - 1))
           last == log[Len(log)]
       IN IF last.op = "hdr"
            THEN Append(init, [path |-> last.path, dir |-> last.dir, bytes |-> 0])
            ELSE IF last.op = "data"
              THEN [init EXCEPT ![Len(init)].bytes = @ + last.n]
              ELSE init

\* The source is a directory that holds regular files and nothing else.
FlatDirOfFiles(t) ==
  /\ t[Root].kind = "dir"
  /\ Children(t, Root) # <<>>
  /\ \A i \in DOMAIN Children(t, Root) : t[Children(t, Root)[i]].kind = "file"

\* One entry per file of the directory, with its size, in traversal order.
FileEntries(t) ==
  [i \in DOMAIN Children(t, Root) |->
     [path |-> Children(t, Root)[i], dir |-> FALSE,
      bytes |-> t[Children(t, Root)[i]].size]]

\* A run on one source that ended without any error.
CompletedSingleRun ==
  apc = "exited" /\ exitCode = 0 /\ fsErrs = 0 /\ variant = "single"

\* C17 as claimed: for a directory of regular files the archive holds as many
\* entries as there are files, with their byte counts, in traversal order.
C17_OneEntryPerFile ==
  (CompletedSingleRun /\ FlatDirOfFiles(sources[1].tree)) =>
    Entries(archive) = FileEntries(sources[1].tree)

\* C17 as amended: the archive holds one entry for the source directory
\* itself, a directory entry without payload, and after it one entry per
\* file, with the file's byte count, in traversal order: one entry more than
\* there are files.
C17_DirEntryThenFiles ==
  (CompletedSingleRun /\ FlatDirOfFiles(sources[1].tree)) =>
    /\ Entries(archive) =
         <<[path |-> Root, dir |-> TRUE, bytes |-> 0]>>
           \o FileEntries(sources[1].tree)
    /\ Len(Entries(archive)) = totalFiles + 1 \/ ~Instrumented

C17_Witness ==
  /\ CompletedSingleRun /\ Instrumented
  /\ FlatDirOfFiles(sources[1].tree)
  /\ sources[1].tree[<<"a">>] = FileNode(0)
  /\ sources[1].tree[<<"b">>] = FileNode(MaxFileSize)
  /\ Len(Entries(archive)) = 3

\* str begins with the characters of prefix, one by one.
StartsWith(str, prefix) ==
  /\ Len(prefix) <= Len(str)
  /\ \A j \in 1..Len(prefix) : str[j] = prefix[j]

\* Source /d and destination /d2/d: a sibling directory that shares the
\* prefix.
SiblingCase ==
  /\ dest # NoDest
  /\ AbsComps(dest) = <<"d2", "d">>
  /\ \E i \in DOMAIN sources : AbsComps(sources[i].arg) = <<"d">>

\* C18: a run with a destination is rejected with the self-inclusion error
\* exactly when the destination's absolute path, as a string, starts with
\* the absolute path string of a source root; so a destination /d2/d is
\* rejected for the source /d, in which it does not lie.
C18_GuardIsStringPrefix ==
  (dest # NoDest /\ apc # "start") =>
    /\ exitErr = "selfinclusion" <=>
         \E i \in DOMAIN sources : StartsWith(Abs(dest), Abs(sources[i].arg))
    /\ SiblingCase => exitErr = "selfinclusion" /\ exitCode = 1

C18_Witness ==
  /\ apc = "exited" /\ exitErr = "selfinclusion" /\ exitCode = 1
  /\ variant = "single"
  /\ SiblingCase
  /\ ~DestInsideSource

\* ------------------------------------------------- copy loop: claim C19

\* The data path's next step, whichever it is.
DataPathStep ==
  \/ WalkEnd \/ EntryGate \/ EntryHeader \/ ChunkGate \/ ChunkRead \/ ChunkWrite
  \/ ChunkAccount

\* The data path is inside a call of WaitIfPaused.
InGate == (cpPc = "entryGate" /\ cpIdx <= Len(cpEntries)) \/ cpPc = "chunkGate"

\* Headers and payload bytes, in the order a walk over the entries gives.
RECURSIVE Stream(_, _)
Stream(entries, i) ==
  IF i > Len(entries) THEN <<>>
  ELSE <<At(i, 0)>> \o [j \in 1..entries[i].content |-> At(i, j)]
       \o Stream(entries, i + 1)

RECURSIVE ContentUpTo(_, _)
ContentUpTo(entries, n) ==
  IF n = 0 THEN 0 ELSE entries[n].content + ContentUpTo(entries, n - 1)

\* Bytes file.Read has delivered so far.
BytesRead ==
  ContentUpTo(cpEntries, cpIdx - 1)
    + (IF cpPc \in {"chunkGate", "read", "write", "account"} THEN cpOff ELSE 0)

HeadersOut == Cardinality({i \in DOMAIN cpOut : cpOut[i].b = 0})

\* The data path cannot go on exactly when it is in WaitIfPaused with the
\* gate paused.
BlocksOnlyInGate ==
  cpPc # "done" => (ENABLED DataPathStep <=> ~(InGate /\ gatePaused))

\* One call of WaitIfPaused for each entry and one for each file.Read.
GatedOncePerEntryAndChunk ==
  cpGateCalls = HeadersOut + (IF cpPc = "header" THEN 1 ELSE 0)
                + cpReads + (IF cpPc = "read" THEN 1 ELSE 0)

\* In WaitIfPaused no chunk is in flight: all that was read is written and
\* accounted.
GateAtChunkBoundary ==
  InGate =>
    /\ cpChunk = <<>>
    /\ Len(cpOut) - HeadersOut = BytesRead
    /\ cpBar = BytesRead /\ cpTracker = BytesRead

\* C19: the data path of the instrumented write phase is blocked only inside
\* WaitIfPaused, which it calls once before each entry and once before each
\* chunk read; while it is inside, every chunk read so far is written to the
\* entry writer and accounted; and whatever the pauses, the entry writers
\* get the headers and bytes of the walk in order, all of them in the end.
C19_PauseAtChunkBoundary ==
  /\ BlocksOnlyInGate
  /\ GatedOncePerEntryAndChunk
  /\ GateAtChunkBoundary
  /\ IsPrefix(cpOut, Stream(cpEntries, 1))
  /\ cpPc = "done" =>
       /\ cpOut = Stream(cpEntries, 1)
       /\ cpBar = ContentUpTo(cpEntries, Len(cpEntries))

C19_Witness ==
  /\ cpPc = "chunkGate" /\ gatePaused /\ gateToggles = 1
  /\ cpIdx = 2
  /\ 0 < cpOff /\ cpOff < cpEntries[cpIdx].content
  /\ cpBar = cpEntries[1].content + cpOff
  /\ cpEntries[1].content > 0

\* ------------------------------------------------------ verifier: claim C20

\* The digest computation is under way or has returned its digest.
Digesting == vpc \in {"read", "compare", "writeSidecar"}

\* Every byte read so far is accounted in the tracker and was written into
\* the hash once, in file order.
DigestAccountedInOrder ==
  Digesting =>
    /\ processed = bytesRead
    /\ bytesRead = readPos
    /\ hashState = SubSeq(file.content, 1, readPos)

\* C20: the digest computation reads through the pause/accounting wrapper: a
\* chunk is read only after a call of WaitIfPaused, every byte read is
\* accounted, and every chunk goes into the digest once, in read order.
C20_DigestThroughWrapper ==
  /\ (Digesting /\ bytesRead > 0) => DigestGateCalls > 0
  /\ DigestAccountedInOrder

\* ------------------------------------------- progress counters: claim C21

\* The scan phase is over: totalSize is the total the progress bar was made
\* with.
TotalKnown == apc \in {"create", "addFiles", "walk", "copy", "finish", "exited"}

\* The archiver's processed bytes stay within the scan total.
ArchProcessedWithinTotal ==
  (Instrumented /\ TotalKnown) => (barCount <= totalSize /\ stTotal <= totalSize)

\* The tracker's processed bytes stay within the size found by Stat.
DigestProcessedWithinTotal == Digesting => processed <= trackTotal

\* The run's tracker has been made and reset: from os.Open to the return.
Tracking == vpc \in {"open", "read", "writeSidecar", "compare"}

\* No step of a run lowers a processed-byte counter (every digest run makes
\* a tracker of its own, which reset starts at 0).
ProcessedNeverDecreases ==
  /\ barCount' >= barCount
  /\ stTotal' >= stTotal
  /\ (Tracking => processed' >= processed)

\* The verifier's half of C21 alone.
DigestProcessedBounded ==
  [](DigestProcessedWithinTotal) /\ [][ProcessedNeverDecreases]_vars

\* C21: in every state of an archiver run and of a digest run the processed
\* byte counter is at most the total fixed at the start of the transfer (the
\* scan total; the file size at stat time), and it never decreases from one
\* step to the next.
C21_ProcessedWithinTotal ==
  /\ [](ArchProcessedWithinTotal /\ DigestProcessedWithinTotal)
  /\ [][ProcessedNeverDecreases]_vars

\* --------------------------------------------------- SpeedTracker: claim C22

\* A call of Update returns in this step.
UpdateStep == updates' = updates + 1

\* The Update of this step comes at least the sampling interval after the
\* last sample.
Sampling == clock - lastTime >= SampleInterval

\* What a sampling Update leaves behind.
Sampled ==
  LET elapsed == clock - lastTime
  IN /\ currentSpeed' = IF elapsed > 0
                          THEN Quotient(totalBytes' - lastBytes, elapsed)
                          ELSE currentSpeed
     /\ lastBytes' = totalBytes'
     /\ lastTime' = clock

\* C22: every Update(b) adds b to the total; speed, last-sample bytes and
\* last-sample time change only in an Update at least the sampling interval
\* after the last sample; there the speed becomes (total - last-sample bytes)
\* / elapsed when elapsed > 0 and stays otherwise, and afterwards the
\* last-sample bytes are the total and the last-sample time is now.
C22_UpdateContract ==
  [][/\ UpdateStep =>
          /\ totalBytes' = totalBytes + updBytes'
          /\ IF Sampling THEN Sampled
                         ELSE UNCHANGED <<currentSpeed, lastBytes, lastTime>>
     /\ ~UpdateStep => UNCHANGED <<totalBytes, currentSpeed, lastBytes, lastTime>>
    ]_vars

\* A sampling Update has set a speed, and an Update since then came too early
\* to sample.
C22_Witness ==
  /\ updates >= 2
  /\ currentSpeed.num > 0
  /\ lastBytes < totalBytes
  /\ clock > lastTime

\* ------------------------------------------------- BufferedWriter: claim C23

\* The sink writes of this step: the records sinkLog gains.
NewSinkWrites == SubSeq(sinkLog', Len(sinkLog) + 1, Len(sinkLog'))

\* A step of a call of Write.
InWrite == bwPc = "loop"

\* Every sink write made by Write carried the whole buffer; the shorter ones
\* were made by an explicit Flush.
WriteEmitsFullBuffers ==
  \A i \in DOMAIN sinkLog :
    /\ sinkLog[i].by = "Write" => Len(sinkLog[i].data) = bwCap
    /\ Len(sinkLog[i].data) < bwCap => sinkLog[i].by = "Flush"

OffsetInBuffer == 0 <= offset /\ offset <= bwCap

\* C23: a sink write that Write itself triggers happens only when the buffer
\* is completely full, is a single sink call, and carries exactly capacity
\* bytes; a shorter sink write can only come from an explicit Flush; and
\* 0 <= offset <= capacity in every state.
C23_WriteFlushesFullBuffer ==
  /\ [](OffsetInBuffer /\ WriteEmitsFullBuffers)
  /\ [][(InWrite /\ sinkLog' # sinkLog) =>
          /\ offset = bwCap
          /\ Len(NewSinkWrites) = 1
          /\ SubSeq(sinkLog', 1, Len(sinkLog)) = sinkLog
          /\ NewSinkWrites[1].by = "Write"
          /\ NewSinkWrites[1].data = SubSeq(buffer, 1, bwCap)]_vars

\* One call of Write has sent two full buffers to the sink and holds a last
\* byte back, which an explicit Flush then sent as a short write.
C23_Witness ==
  /\ bwCap = 1
  /\ Len(wP) = MaxCap
  /\ Len(sinkLog) = MaxCap
  /\ \A i \in 1..(MaxCap - 1) : sinkLog[i].by = "Write" /\ sinkLog[i].ok
  /\ sinkLog[MaxCap].by = "Flush"
  /\ offset = 0

\* ------------------------------------------------ archiver: claim C24

\* The process has exited after a write phase without error.
ExitedAfterWritePhase == shPc = "exited"

\* Finalization of the archive, the final Flush, the closing of the file.
ShutdownOrder == <<"finalize", "flush", "close">>

\* The order of the shutdown steps and the empty buffer at exit; the
\* destination has every byte the archive writer emitted if no write to it
\* failed.
ShutdownOrdered ==
  ExitedAfterWritePhase =>
    /\ shutLog = ShutdownOrder
    /\ ~fileOpen
    /\ offset = 0
    /\ (\A i \in DOMAIN sinkLog : sinkLog[i].ok) => sink = passed

\* C24: in a run with a destination file that completes the write phase
\* without error the shutdown steps happen in the order finalization of the
\* archive (index into the buffer), final Flush, closing of the file; at
\* process exit the buffer is empty and the destination holds every byte the
\* archive writer emitted, in emission order.
C24_ShutdownCompletesArchive ==
  ExitedAfterWritePhase =>
    /\ shutLog = ShutdownOrder
    /\ offset = 0
    /\ sink = passed

\* ------------------------------------------------- BufferedWriter: claim C25

\* The bytes of all sink writes made so far, failed ones included, in order.
RECURSIVE Sent(_)
Sent(log) == IF log = <<>> THEN <<>> ELSE Head(log).data \o Sent(Tail(log))

\* Every byte copied so far is in the buffer or was in one sink write, and in
\* one only: the bytes of a failed sink write are in no later one.
SentOnce == Sent(sinkLog) \o SubSeq(buffer, 1, offset) = copied

\* After a failed sink write the sink and the buffer together hold fewer
\* bytes than were copied: the rest is dropped.
DroppedAfterError == sinkErrs > 0 => Len(sink) + offset < Len(copied)

\* The last sink write failed and nothing has been copied since.
AfterFailedFlush == sinkLog # <<>> /\ sinkRet # "nil" /\ offset = 0

\* The failing step: the sink took fewer bytes than it was given, the buffer
\* is empty afterwards, and a Write returns the number of bytes it has
\* copied, the last of which is the last byte of the failed sink write.
FailureDropsBuffer ==
  LET rec == sinkLog'[Len(sinkLog')]
      took == Len(sink') - Len(sink)
  IN /\ offset' = 0
     /\ took < Len(rec.data)
     /\ bwPc = "loop" =>
          /\ bwRet'.n = srcOffset
          /\ bwRet'.n > 0 => rec.data[Len(rec.data)] = wP[bwRet'.n]

\* C25: after a Flush in which the sink returned an error the buffer is
\* empty; the bytes that were buffered are dropped and are in no later sink
\* write; a following Flush does nothing and returns nil; and the count the
\* failing Write returns (n minus the bytes not yet copied) counts bytes that
\* never reached the sink.
C25_FlushErrorDropsBuffer ==
  /\ [](SentOnce /\ DroppedAfterError)
  /\ [][SinkFails => FailureDropsBuffer]_vars
  /\ [][(FlushStep /\ AfterFailedFlush) =>
          /\ sinkLog' = sinkLog /\ sink' = sink
          /\ bwRet'.err = "nil"
          /\ offset' = 0]_vars

\* A Write failed in its flush with two bytes in the buffer, of which the
\* sink took none; the bytes copied later reached the sink by a Flush,
\* without the dropped ones.
C25_Witness ==
  /\ bwPc = "idle" /\ bwRet = [op |-> "Flush", n |-> 0, err |-> "nil"]
  /\ Len(sinkLog) = 2
  /\ ~sinkLog[1].ok /\ sinkLog[1].by = "Write" /\ Len(sinkLog[1].data) = 2
  /\ sinkLog[2].ok /\ sinkLog[2].by = "Flush"
  /\ sink = sinkLog[2].data
  /\ copied = sinkLog[1].data \o sinkLog[2].data
  /\ offset = 0

\* ------------------------------------------------------ verifier: claim C26

\* The digest of the whole file has been computed without error.
DigestComplete ==
  /\ readPos = Len(file.content)
  /\ hashState = file.content
  /\ actualHash = Hex(Sum256(file.content))

\* A generate run has returned.
GenerateReturned == mode = "generate" /\ vpc = "idle"

\* This step delivers an I/O error to the run.
IOErrorStep == ioErrs' = ioErrs + 1

\* C26: generate creates or overwrites the sidecar only after the digest of
\* the whole file has been computed without error; on a missing target, a
\* directory or a read error during the digest it returns an error and
\* leaves an existing sidecar as it is; verify never writes the sidecar.
C26_SidecarWrittenAfterDigest ==
  /\ [][sidecar' # sidecar =>
          /\ mode = "generate"
          /\ vpc = "writeSidecar"
          /\ DigestComplete]_vars
  /\ [][(IOErrorStep /\ mode = "generate" /\ vpc \in {"open", "read"}) =>
          /\ vpc' = "idle" /\ result' = "digest" /\ vExit' = 1
          /\ sidecar' = sidecar]_vars
  /\ []((GenerateReturned /\ file.kind = "none") => (result = "notfound" /\ vExit = 1))
  /\ []((GenerateReturned /\ file.kind = "dir") => (result = "isdir" /\ vExit = 1))

\* A second generate run, on a file changed since the first, met a read
\* error after its first chunk: the sidecar is still the first run's.
C26_Witness ==
  /\ GenerateReturned /\ result = "digest" /\ vExit = 1
  /\ bytesRead > 0 /\ readPos < Len(file.content)
  /\ genOf # NoGen /\ genOf # file.content
  /\ sidecar = Sidecar(SidecarLine(Hex(Sum256(genOf)), fname))

====
